---- MODULE Spec2Model ----
(***************************************************************************)
(* Model of the classification queue (AIClassifier, src/server.js) and of  *)
(* the question / answer-candidate lifecycle (Store, src/unnamed/part_000) *)
(* of the WhatsApp command center.                                         *)
(*                                                                         *)
(* Time is in milliseconds, as in the source.  An optional value (null in  *)
(* the source) is the empty sequence, a present value v is <<v>>.          *)
(***************************************************************************)
EXTENDS Integers, Sequences, FiniteSets, TLC

VARIABLES
  now,              \* Date.now()
  queue,            \* AIClassifier.queue: job ids, oldest first
  nextJob,          \* id the next accepted job gets (ids are caller-supplied, distinct)
  processing,       \* AIClassifier.processing
  batchTimer,       \* AIClassifier.batchTimer: Null or <<time it fires>>
  nextTimers,       \* pending setTimeout(() => _processBatch()) of line 2046: firing times
  lastRequestTime,  \* AIClassifier.lastRequestTime
  inflight,         \* activations of _processBatch past line 2016, each inside _callAPI or its callback loop
  sync,             \* activation of classifyOne / classifyBatch (Null when none)
  syncCalls,        \* calls of classifyOne / classifyBatch made so far
  cbCalls,          \* per job: the results onClassified was invoked with, in order
  epoch,            \* history: <<time of the first enqueue>> of a collection begun on an idle queue
  lastTake,         \* history: the last batch taken from the queue
  done,             \* history: summary of the last batch that completed
  throttled,        \* history: jobs of completed batches whose every attempt got a 429
  jobs,             \* per job a message handler queued: what its onClassified is about
  questions,        \* table questions: row id = index
  answer_candidates, \* table answer_candidates: row id = index
  scored,           \* the last call of scoreAnswer: Null or <<its input and result>>
  analyzed,         \* the last call of analyzeQuestion: Null or <<its body, what
                    \* _classifyQuestionType makes of the body, and its result>>
  accepts,          \* activations of acceptAnswerCandidate followed update by update
  checks,           \* activations of checkForAnswers followed update by update
  enqueuedAt        \* history: per job, the time queueMessage pushed it (0: not kept)

queueVars == <<now, queue, nextJob, processing, batchTimer, nextTimers,
               lastRequestTime, inflight, sync, syncCalls, cbCalls, epoch,
               lastTake, done, throttled, jobs>>
storeVars == <<questions, answer_candidates>>
scoreVars == <<scored, analyzed>>
taskVars == <<accepts, checks>>
vars == <<queueVars, storeVars, scoreVars, taskVars, enqueuedAt>>

Null == <<>>
Some(v) == <<v>>

\* ---------------------------------------------------------------- bounds
MaxJobs == 11        \* jobs accepted by queueMessage in one behaviour
StartTime == 100000  \* Date.now() when the classifier is constructed
Horizon == 14000     \* the clock stops this long after StartTime
TickStep == 2000     \* spacing of the instants at which the clock stops between timers
SuggestedSecs == 1   \* the "try again in N s" a throttling response carries
MaxSyncCalls == 1    \* calls of classifyOne / classifyBatch in one behaviour
MaxBulk == 11        \* messages handed to one classifyBatch
MaxSyncJobs == 2     \* jobs accepted by queueMessage next to such a call
MaxRetryJobs == 2    \* jobs accepted by queueMessage while the retries are followed
RetryHorizon == 110000 \* the clock stops this long after StartTime then
SyncHorizon == 17000 \* the clock stops this long after StartTime next to such a call

\* -------------------------------------------- constants of AIClassifier
batchSize == 10
batchDelayMs == 3000
rateLimitDelayMs == 13000
maxRetries == 3
retryBaseDelayMs == 15000
nextBatchMinMs == 200
requestTimeoutMs == 30000
retryAfterBufferMs == 1000

MaxQuestions == 1    \* rows of table questions
MaxCandidates == 2   \* rows of table answer_candidates
MaxEdgeCandidates == 2 \* rows of answer_candidates while the edges are tried
MaxPipeJobs == 2     \* messages handled in one behaviour of the pipeline
MaxPipeCandidates == 1 \* rows of answer_candidates in the pipeline
MaxReviewCandidates == 1 \* rows of answer_candidates while one candidate is followed
MaxTextWords == 3    \* words of a body given to analyzeQuestion
MaxAccepts == 2      \* calls of acceptAnswerCandidate followed request by request
MaxChecks == 2       \* calls of checkForAnswers followed request by request
MaxLiveJobs == 11    \* jobs accepted by queueMessage while each is followed to its end
LiveArrivalMs == 3000 \* the jobs followed to their end are queued this long after StartTime
MaxWindowJobs == 2   \* jobs accepted by queueMessage while their push times are kept

\* ----------------------------------------------------- constants of Store
\* Confidences are in hundredths: 0.2 is 20, 0.5 is 50, 0.8 is 80, 1.0 is 100.
minAnswerAgeMs == 2000
maxAge == 24 * 60 * 60 * 1000
recordThreshold == 20
acceptThreshold == 50
promoteThreshold == 70  \* whatsapp.js:426
dismissThreshold == 80
fullConfidence == 100

MaxTime == StartTime + Horizon
MaxSyncTime == StartTime + SyncHorizon
MaxRetryTime == StartTime + RetryHorizon

Max(a, b) == IF a >= b THEN a ELSE b
Min(a, b) == IF a <= b THEN a ELSE b

RECURSIVE Pow2(_)
Pow2(n) == IF n = 0 THEN 1 ELSE 2 * Pow2(n - 1)

SeqToSet(s) == {s[i] : i \in 1..Len(s)}

\* s without its k-th element
RemoveAt(s, k) == SubSeq(s, 1, k - 1) \o SubSeq(s, k + 1, Len(s))

\* ------------------------------------------------------------ _callAPI
\* What the service can answer to one request.
\*   r429   throttled, no delay suggested      r429ra throttled, "try again in N s"
\*   r529   overloaded                         err    network error, 30 s timeout
\*   r500   any other non-2xx status           badjson  2xx, body that does not parse
\*   nonarray  2xx, body parses to a non-array
\*   ok     2xx, an array with one object per message
\*   short  2xx, an array with one object fewer    long   2xx, an array with one more
ResponseKinds ==
  {"r429", "r429ra", "r529", "err", "r500", "badjson", "nonarray", "ok", "short", "long"}

\* _parseRetryAfter: milliseconds to wait, or null
ParseRetryAfter(kind) ==
  IF kind = "r429ra" THEN Some(SuggestedSecs * 1000 + retryAfterBufferMs) ELSE Null

\* retryBaseDelayMs * Math.pow(2, attempt)
ExpBackoff(attempt) == retryBaseDelayMs * Pow2(attempt)

\* backoffMs of the 429 branch: retryAfter || exponential
ThrottleBackoff(kind, attempt) ==
  LET retryAfter == ParseRetryAfter(kind)
  IN  IF retryAfter # Null /\ retryAfter[1] # 0 THEN retryAfter[1] ELSE ExpBackoff(attempt)

\* messages.map(() => null)
AllNullNot(n) == [i \in 1..n |-> Some(i)]
AllNull(n) == [i \in 1..n |-> Null]

\* parsed.map(...) of an array of n objects: element i is the i-th object
Normalized(n) == [i \in 1..n |-> Some(i)]

\* waitMs of _waitForRateLimit at time t
RateLimitWait(t, last) == rateLimitDelayMs - (t - last)

\* The activation of _callAPI(batch) right after its request is sent at time t.
Posted(c, t) == [c EXCEPT !.pc = "post", !.wake = t + requestTimeoutMs]

\* Entering _callAPI at time t: sleep in _waitForRateLimit, or send at once.
NewCall(owner, batch, rest) ==
  [owner |-> owner, batch |-> batch, rest |-> rest, pc |-> "wait", attempt |-> 0,
   wake |-> now, all429 |-> TRUE, failed |-> FALSE, results |-> Null, i |-> 0]

MustWait(t, last) == RateLimitWait(t, last) > 0

EnterCall(owner, batch, rest) ==
  IF MustWait(now, lastRequestTime)
    THEN [NewCall(owner, batch, rest) EXCEPT !.wake = now + RateLimitWait(now, lastRequestTime)]
    ELSE Posted(NewCall(owner, batch, rest), now)

\* The activation c after the service answered its request with kind, at time now.
\* pc "backoff": sleeping before the next attempt; pc "ret": _callAPI returned results.
RetryWithoutBudget(c, backoffMs) == [c EXCEPT !.pc = "backoff", !.wake = now + backoffMs]
RetryOrGiveUp(c, backoffMs) ==
  IF c.attempt < maxRetries
    THEN [c EXCEPT !.pc = "backoff", !.wake = now + backoffMs]
    ELSE [c EXCEPT !.pc = "ret", !.failed = TRUE, !.results = AllNull(Len(c.batch))]

Answered(c, kind) ==
  LET c1 == [c EXCEPT !.all429 = @ /\ kind \in {"r429", "r429ra"}]
  IN  CASE kind \in {"r429", "r429ra"} -> RetryOrGiveUp(c1, ThrottleBackoff(kind, c.attempt))
        [] kind = "r529" -> RetryOrGiveUp(c1, ExpBackoff(c.attempt))
        [] kind \in {"err", "r500", "badjson"} -> RetryOrGiveUp(c1, ExpBackoff(c.attempt))
        [] kind = "nonarray" -> [c1 EXCEPT !.pc = "ret", !.failed = TRUE,
                                           !.results = AllNull(Len(c.batch))]
        [] kind = "ok" -> [c1 EXCEPT !.pc = "ret", !.results = Normalized(Len(c.batch))]
        [] kind = "short" -> [c1 EXCEPT !.pc = "ret", !.results = Normalized(Len(c.batch) - 1)]
        [] kind = "long" -> [c1 EXCEPT !.pc = "ret", !.results = Normalized(Len(c.batch) + 1)]

\* ------------------------------------------------- _processBatch pieces
\* results[i] of line 2025: undefined past the end of the array
ResultAtShifted(results, i) == IF i + 1 \in 1..Len(results) THEN results[i + 1] ELSE Null
ResultAt(results, i) == IF i \in 1..Len(results) THEN results[i] ELSE Null

\* waitMs of line 2045
NextBatchWaitNoFloor(t, last) == rateLimitDelayMs - (t - last)
NextBatchWait(t, last) == Max(nextBatchMinMs, rateLimitDelayMs - (t - last))

Idle == queue = <<>> /\ batchTimer = Null /\ nextTimers = <<>> /\ ~processing /\ inflight = <<>>

\* --------------------------------------------------------------- Init
InitQueue ==
  /\ now = StartTime
  /\ queue = <<>>
  /\ nextJob = 1
  /\ processing = FALSE
  /\ batchTimer = Null
  /\ nextTimers = <<>>
  /\ lastRequestTime = 0
  /\ inflight = <<>>
  /\ sync = Null
  /\ syncCalls = 0
  /\ cbCalls = [j \in 1..MaxJobs |-> <<>>]
  /\ epoch = Null
  /\ lastTake = Null
  /\ done = Null
  /\ throttled = {}
  /\ jobs = <<>>

\* ------------------------------------------------------ _processBatch
\* line 2014: the attempt goes on only when no batch is outstanding
CanProcessNoFlag(q) == q # <<>>
CanProcess(q) == ~processing /\ q # <<>>

\* line 2017: this.queue.splice(0, this.batchSize)
Take(q) == SubSeq(q, 1, Min(batchSize, Len(q)))

\* _processBatch up to its first await, run with the queue holding q; e is
\* the value of epoch at the call.
ProcessBatch(q, e) ==
  IF CanProcess(q)
    THEN LET batch == Take(q)
             c == EnterCall("queue", batch, 0)
         IN  /\ processing' = TRUE
             /\ queue' = SubSeq(q, Len(batch) + 1, Len(q))
             /\ inflight' = Append(inflight, c)
             /\ lastRequestTime' = IF c.pc = "post" THEN now ELSE lastRequestTime
             /\ lastTake' = Some([n |-> Len(batch), idle |-> e # Null,
                                   early |-> e # Null /\ now < e[1] + batchDelayMs])
             /\ epoch' = Null
    ELSE /\ queue' = q
         /\ epoch' = e
         /\ UNCHANGED <<processing, inflight, lastRequestTime, lastTake>>

\* ------------------------------------------------------- queueMessage
\* queueMessage of an enabled classifier with a body of at least 3 characters
\* (the two early returns of lines 1948-1949 change nothing).
\* line 1962
ReachedBatchSizeLate(q) == Len(q) > batchSize
ReachedBatchSize(q) == Len(q) >= batchSize

BatchWindow == batchDelayMs

Enqueue ==
  /\ nextJob <= MaxJobs
  /\ LET q == Append(queue, nextJob)
         e == IF Idle THEN Some(now) ELSE epoch
         timer == IF batchTimer = Null THEN Some(now + BatchWindow) ELSE batchTimer
     IN  /\ nextJob' = nextJob + 1
         /\ IF ReachedBatchSize(q)
              THEN /\ batchTimer' = Null
                   /\ ProcessBatch(q, e)
              ELSE /\ batchTimer' = timer
                   /\ queue' = q
                   /\ epoch' = e
                   /\ UNCHANGED <<processing, inflight, lastRequestTime, lastTake>>
  /\ UNCHANGED <<now, nextTimers, sync, syncCalls, cbCalls, done, throttled>>

\* queueMessage for a job whose callback is not followed
QueueMessage == Enqueue /\ UNCHANGED <<storeVars, jobs, scoreVars, taskVars, enqueuedAt>>

\* queueMessage, the time of the push being kept
QueueMessageTimed ==
  /\ nextJob <= MaxWindowJobs
  /\ Enqueue
  /\ enqueuedAt' = [enqueuedAt EXCEPT ![nextJob] = now]
  /\ UNCHANGED <<storeVars, jobs, scoreVars, taskVars>>

\* the callback of the timer set at line 1955
BatchTimerFires ==
  /\ batchTimer # Null
  /\ now >= batchTimer[1]
  /\ batchTimer' = Null
  /\ ProcessBatch(queue, epoch)
  /\ UNCHANGED <<now, nextJob, nextTimers, sync, syncCalls, cbCalls, done, throttled, storeVars, jobs, scoreVars, taskVars, enqueuedAt>>

\* the callback of a timer set at line 2046
NextTimerFires ==
  \E k \in 1..Len(nextTimers) :
    /\ now >= nextTimers[k]
    /\ nextTimers' = RemoveAt(nextTimers, k)
    /\ ProcessBatch(queue, epoch)
    /\ UNCHANGED <<now, nextJob, batchTimer, sync, syncCalls, cbCalls, done, throttled, storeVars, jobs, scoreVars, taskVars, enqueuedAt>>

\* ------------------------------------- _processBatch after _callAPI
\* line 2026: the callback is invoked only for a truthy result
InvokesCallbackAlways(result) == TRUE
InvokesCallback(result) == result # Null

\* lines 2023-2034 resumed after index i: the next job whose callback is invoked
RECURSIVE NextInvoked(_, _)
NextInvoked(c, i) ==
  IF i >= Len(c.batch) THEN Len(c.batch) + 1
  ELSE IF InvokesCallback(ResultAt(c.results, i + 1)) THEN i + 1
  ELSE NextInvoked(c, i + 1)

\* lines 2043-2047: the timers after the batch completed at time now
SchedulesNextNever(q) == FALSE
SchedulesNext(q) == Len(q) > 0

\* The activation k of _processBatch, whose _callAPI returned or whose i-th
\* callback settled (c is its record), runs on to its next await or to its end.
Resume(k, c) ==
  LET i == NextInvoked(c, c.i)
  IN  IF i <= Len(c.batch)
        THEN /\ cbCalls' = [cbCalls EXCEPT ![c.batch[i]] = Append(@, ResultAt(c.results, i))]
             /\ inflight' = [inflight EXCEPT ![k] = [c EXCEPT !.pc = "cb", !.i = i]]
             /\ UNCHANGED <<processing, nextTimers, done, throttled>>
        ELSE /\ processing' = FALSE
             /\ inflight' = RemoveAt(inflight, k)
             /\ nextTimers' = IF SchedulesNext(queue)
                                THEN Append(nextTimers, now + NextBatchWait(now, lastRequestTime))
                                ELSE nextTimers
             /\ done' = Some([n |-> Len(c.batch), posts |-> c.attempt + 1, all429 |-> c.all429,
                           failed |-> c.failed])
             /\ throttled' = IF c.all429 THEN throttled \cup SeqToSet(c.batch) ELSE throttled
             /\ UNCHANGED cbCalls

\* A sleep of _callAPI ends (the rate-limit wait or a backoff): the request is sent.
Woken(c) ==
  Posted([c EXCEPT !.attempt = IF c.pc = "backoff" THEN @ + 1 ELSE @], now)

QueueCallWakes ==
  \E k \in 1..Len(inflight) :
    /\ inflight[k].pc \in {"wait", "backoff"}
    /\ now >= inflight[k].wake
    /\ inflight' = [inflight EXCEPT ![k] = Woken(inflight[k])]
    /\ lastRequestTime' = now
    /\ UNCHANGED <<now, queue, nextJob, processing, batchTimer, nextTimers, sync,
                   syncCalls, cbCalls, epoch, lastTake, done, throttled, storeVars, jobs, scoreVars, taskVars, enqueuedAt>>

\* The service answers (kind), or the 30 s timeout rejects the request ("err").
CanAnswer(c, kind) ==
  /\ c.pc = "post"
  /\ now >= c.wake => kind = "err"

CallAnswered(k, kind) ==
  /\ CanAnswer(inflight[k], kind)
  /\ LET c == Answered(inflight[k], kind)
     IN  IF c.pc = "ret"
           THEN Resume(k, c)
           ELSE /\ inflight' = [inflight EXCEPT ![k] = c]
                /\ UNCHANGED <<processing, nextTimers, cbCalls, done, throttled>>
  /\ UNCHANGED <<now, queue, nextJob, batchTimer, lastRequestTime, sync, syncCalls,
                 epoch, lastTake, storeVars, jobs, scoreVars, taskVars, enqueuedAt>>

QueueCallAnswered ==
  \E k \in 1..Len(inflight), kind \in ResponseKinds : CallAnswered(k, kind)

\* The awaited onClassified of line 2028 settles (returns, or throws into the
\* catch of line 2030).
Settle(k) ==
  /\ inflight[k].pc = "cb"
  /\ Resume(k, inflight[k])
  /\ UNCHANGED <<now, queue, nextJob, batchTimer, lastRequestTime, sync, syncCalls,
                 epoch, lastTake>>

CallbackSettles == \E k \in 1..Len(inflight) : Settle(k) /\ UNCHANGED <<storeVars, jobs, scoreVars, taskVars, enqueuedAt>>

\* ------------------------------------- classifyOne / classifyBatch
\* The chunk classifyBatch sends first when n messages are left (line 1987).
Chunk(n) == [i \in 1..Min(batchSize, n) |-> i]

\* classifyOne(body): _callAPI with the one message
ClassifyOne ==
  /\ sync = Null
  /\ syncCalls < MaxSyncCalls
  /\ syncCalls' = syncCalls + 1
  /\ LET c == EnterCall("sync", Chunk(1), 0)
     IN  /\ sync' = Some(c)
         /\ lastRequestTime' = IF c.pc = "post" THEN now ELSE lastRequestTime
  /\ UNCHANGED <<now, queue, nextJob, processing, batchTimer, nextTimers, inflight,
                 cbCalls, epoch, lastTake, done, throttled, storeVars, jobs, scoreVars, taskVars, enqueuedAt>>

\* classifyBatch(messages) with MaxBulk messages: _callAPI with the first chunk
ClassifyBatch ==
  /\ sync = Null
  /\ syncCalls < MaxSyncCalls
  /\ syncCalls' = syncCalls + 1
  /\ LET c == EnterCall("sync", Chunk(MaxBulk), MaxBulk - Len(Chunk(MaxBulk)))
     IN  /\ sync' = Some(c)
         /\ lastRequestTime' = IF c.pc = "post" THEN now ELSE lastRequestTime
  /\ UNCHANGED <<now, queue, nextJob, processing, batchTimer, nextTimers, inflight,
                 cbCalls, epoch, lastTake, done, throttled, storeVars, jobs, scoreVars, taskVars, enqueuedAt>>

\* A sleep inside the caller's _callAPI ends: the request is sent.
SyncCallWakes ==
  /\ sync # Null
  /\ sync[1].pc \in {"wait", "backoff"}
  /\ now >= sync[1].wake
  /\ sync' = Some(Woken(sync[1]))
  /\ lastRequestTime' = now
  /\ UNCHANGED <<now, queue, nextJob, processing, batchTimer, nextTimers, inflight,
                 syncCalls, cbCalls, epoch, lastTake, done, throttled, storeVars, jobs, scoreVars, taskVars, enqueuedAt>>

\* classifyBatch goes on to its next chunk (line 1988), rest messages being left.
NextChunk(rest) == EnterCall("sync", Chunk(rest), rest - Len(Chunk(rest)))

\* The service answers the caller's request.  When _callAPI returns: classifyOne
\* and the last chunk of classifyBatch return; otherwise lines 1992-1994 wait
\* for the rate limit (pc "gap") before the next chunk.
SyncCallAnswered ==
  \E kind \in ResponseKinds :
    /\ sync # Null
    /\ CanAnswer(sync[1], kind)
    /\ LET c == Answered(sync[1], kind)
       IN  IF c.pc # "ret"
             THEN sync' = Some(c) /\ UNCHANGED lastRequestTime
           ELSE IF c.rest = 0
             THEN sync' = Null /\ UNCHANGED lastRequestTime
           ELSE IF MustWait(now, lastRequestTime)
             THEN /\ sync' = Some([c EXCEPT !.pc = "gap",
                                             !.wake = now + RateLimitWait(now, lastRequestTime)])
                  /\ UNCHANGED lastRequestTime
           ELSE LET d == NextChunk(c.rest)
                IN  /\ sync' = Some(d)
                    /\ lastRequestTime' = IF d.pc = "post" THEN now ELSE lastRequestTime
    /\ UNCHANGED <<now, queue, nextJob, processing, batchTimer, nextTimers, inflight,
                   syncCalls, cbCalls, epoch, lastTake, done, throttled, storeVars, jobs, scoreVars, taskVars, enqueuedAt>>

\* The wait of line 1993 ends: _callAPI of the next chunk is entered.
SyncGapEnds ==
  /\ sync # Null
  /\ sync[1].pc = "gap"
  /\ now >= sync[1].wake
  /\ LET d == NextChunk(sync[1].rest)
     IN  /\ sync' = Some(d)
         /\ lastRequestTime' = IF d.pc = "post" THEN now ELSE lastRequestTime
  /\ UNCHANGED <<now, queue, nextJob, processing, batchTimer, nextTimers, inflight,
                 syncCalls, cbCalls, epoch, lastTake, done, throttled, storeVars, jobs, scoreVars, taskVars, enqueuedAt>>

\* ------------------------------------------------------------- clock
Deadlines ==
  (IF batchTimer = Null THEN {} ELSE {batchTimer[1]})
  \cup SeqToSet(nextTimers)
  \cup {inflight[k].wake : k \in {x \in 1..Len(inflight) : inflight[x].pc \in {"wait", "backoff", "post"}}}
  \cup (IF sync # Null /\ sync[1].pc \in {"wait", "backoff", "post", "gap"} THEN {sync[1].wake} ELSE {})

\* the first instant after t of the clock's grid StartTime + k * TickStep
NextGrid(t) == StartTime + (((t - StartTime) \div TickStep) + 1) * TickStep

\* Time passes: to the next instant of the grid, or to the next timer that is
\* due when that comes first.  A due timer fires before time passes on.
TickUntil(end) ==
  /\ now < end
  /\ \A d \in Deadlines : d > now
  /\ LET limit == {d \in Deadlines \cup {end} : \A o \in Deadlines \cup {end} : d <= o}
     IN  \E d \in limit : now' = Min(NextGrid(now), d)
  /\ UNCHANGED <<queue, nextJob, processing, batchTimer, nextTimers, lastRequestTime,
                 inflight, sync, syncCalls, cbCalls, epoch, lastTake, done, throttled, storeVars, jobs, scoreVars, taskVars, enqueuedAt>>

Tick == TickUntil(MaxTime)

\* the clock next to a synchronous caller runs for SyncHorizon
TickSync == TickUntil(MaxSyncTime)

\* The clock while a batch is followed through its retries and callbacks:
\* time passes from one timer to the next.
TickRetry ==
  /\ \A d \in Deadlines : d > now
  /\ \E d \in Deadlines :
       /\ \A o \in Deadlines : d <= o
       /\ d <= MaxRetryTime
       /\ now' = d
  /\ UNCHANGED <<queue, nextJob, processing, batchTimer, nextTimers, lastRequestTime,
                 inflight, sync, syncCalls, cbCalls, epoch, lastTake, done, throttled,
                 storeVars, jobs, scoreVars, taskVars, enqueuedAt>>

\* The clock while every job is followed to the end of its batch: time passes
\* from one timer to the next, for as long as a timer is pending.
TickLive ==
  /\ \A d \in Deadlines : d > now
  /\ \E d \in Deadlines :
       /\ \A o \in Deadlines : d <= o
       /\ now' = d
  /\ UNCHANGED <<queue, nextJob, processing, batchTimer, nextTimers, lastRequestTime,
                 inflight, sync, syncCalls, cbCalls, epoch, lastTake, done, throttled,
                 storeVars, jobs, scoreVars, taskVars, enqueuedAt>>

\* ================================================================ Store
\* .update(...).eq('id', id) on a table: F applied to the row with that id
UpdateRow(table, id, F(_)) ==
  [i \in 1..Len(table) |-> IF i = id THEN F(table[i]) ELSE table[i]]

\* The row addQuestion inserts (lines 876-892), the other columns at their
\* defaults (part_004 74-91, migrations/002 5-16, part_002 56).  The columns
\* ai_confidence, ai_intent, ai_summary and ai_is_actionable, which no
\* operation reads, are left out.
NewQuestion(chat, ts) ==
  [chat_id |-> chat, timestamp |-> ts, status |-> "open",
   priority |-> "normal", question_type |-> "general",
   answered_by |-> Null, answered_at |-> Null, answer_confidence |-> Null,
   answer_reason |-> Null, answer_preview |-> Null, answer_id |-> Null,
   dismissed |-> FALSE, dismissed_by |-> Null, dismissed_at |-> Null,
   manually_resolved |-> FALSE,
   classified_by |-> "regex"]

\* What analyzer.scoreAnswer can return for a message: the confidence and the
\* signals (in insertion order) with their score and detail.
ScoreResults ==
  { [confidence |-> 8,
     signals |-> << [name |-> "time_proximity", score |-> 8, detail |-> "within 1 hour"] >>],
    [confidence |-> 35,
     signals |-> << [name |-> "time_proximity", score |-> 20, detail |-> "within 2 minutes"],
                    [name |-> "conversation_proximity", score |-> 15, detail |-> "1 messages between"] >>],
    [confidence |-> 100,
     signals |-> << [name |-> "quoted_reply", score |-> 100, detail |-> "quoted reply"],
                    [name |-> "time_proximity", score |-> 20, detail |-> "within 2 minutes"] >>] }

\* lines 976-978: the entry with the largest positive score, the earlier one on a tie
RECURSIVE TopSignal(_, _, _)
TopSignal(signals, i, best) ==
  IF i > Len(signals) THEN best
  ELSE IF signals[i].score > 0 /\ (best = Null \/ signals[i].score > best[1].score)
    THEN TopSignal(signals, i + 1, Some(signals[i]))
    ELSE TopSignal(signals, i + 1, best)

\* line 987
AnswerReason(signals) ==
  LET top == TopSignal(signals, 1, Null)
  IN  IF top # Null THEN top[1].detail ELSE "multi-signal match"

\* line 941: the question is too young or too old for the message
OutsideWindow(age) == age < minAnswerAgeMs \/ age > maxAge

\* lines 960-972
NewCandidateAbove(qid, sender, ts, confidence) ==
  [question_id |-> qid, sender |-> sender, timestamp |-> ts,
   confidence |-> confidence, is_accepted |-> confidence > acceptThreshold]
NewCandidate(qid, sender, ts, confidence) ==
  [question_id |-> qid, sender |-> sender, timestamp |-> ts,
   confidence |-> confidence, is_accepted |-> confidence >= acceptThreshold]

\* lines 980-991
AutoAnswered(row, sender, ts, score, candidateId) ==
  [row EXCEPT !.status = "answered", !.answered_by = Some(sender),
              !.answered_at = Some(ts), !.answer_confidence = Some(score.confidence),
              !.answer_reason = Some(AnswerReason(score.signals)),
              !.answer_preview = Some("body"), !.answer_id = Some(candidateId)]

\* One round of the loop of lines 939-996, for the question q read at line 929,
\* on the tables t = [q |-> questions, c |-> answer_candidates].
CheckOne(t, q, sender, ts, score) ==
  IF OutsideWindow(ts - t.q[q].timestamp) \/ score.confidence < recordThreshold
    THEN t
    ELSE LET candidateId == Len(t.c) + 1
             cand == NewCandidate(q, sender, ts, score.confidence)
             Answer(row) == AutoAnswered(row, sender, ts, score, candidateId)
         IN  [q |-> IF cand.is_accepted THEN UpdateRow(t.q, q, Answer) ELSE t.q,
              c |-> Append(t.c, cand)]

\* the loop over pendingQs (ascending ids), scores[q] being scoreAnswer's result for q
RECURSIVE CheckAll(_, _, _, _, _)
CheckAll(t, pending, sender, ts, scores) ==
  IF pending = {} THEN t
  ELSE LET q == CHOOSE x \in pending : \A y \in pending : x <= y
       IN  CheckAll(CheckOne(t, q, sender, ts, scores[q]), pending \ {q}, sender, ts, scores)

\* lines 929-933: the open questions of the chat
PendingQs(chat) ==
  {q \in 1..Len(questions) : questions[q].chat_id = chat /\ questions[q].status = "open"}

\* lines 1027-1034
MarkedAnswered(row, answeredBy) ==
  [row EXCEPT !.status = "answered",
              !.answered_by = IF answeredBy # Null THEN answeredBy ELSE Some("Manual"),
              !.answered_at = Some(now), !.answer_confidence = Some(fullConfidence),
              !.answer_reason = Some("manually resolved"), !.manually_resolved = TRUE]

\* lines 1041-1046
Dismissed(row, dismissedBy) ==
  [row EXCEPT !.status = "dismissed", !.dismissed = TRUE,
              !.dismissed_by = IF dismissedBy # Null THEN dismissedBy ELSE Some("Admin"),
              !.dismissed_at = Some(now)]

\* lines 1053-1065
ReopenedKeepsAnswerId(row) ==
  [row EXCEPT !.status = "open", !.answered_by = Null, !.answered_at = Null,
              !.answer_confidence = Null, !.answer_reason = Null,
              !.answer_preview = Null,
              !.dismissed = FALSE, !.dismissed_by = Null, !.dismissed_at = Null,
              !.manually_resolved = FALSE]
Reopened(row) ==
  [row EXCEPT !.status = "open", !.answered_by = Null, !.answered_at = Null,
              !.answer_confidence = Null, !.answer_reason = Null,
              !.answer_preview = Null, !.answer_id = Null,
              !.dismissed = FALSE, !.dismissed_by = Null, !.dismissed_at = Null,
              !.manually_resolved = FALSE]

\* lines 1150-1153: accept this candidate
AcceptThisNot(cands, candidateId) == cands
AcceptThis(cands, candidateId) ==
  [i \in 1..Len(cands) |->
     IF i = candidateId THEN [cands[i] EXCEPT !.is_accepted = TRUE] ELSE cands[i]]

\* lines 1156-1160: un-accept the other candidates of the question
UnacceptNone(cands, candidateId, qid) == cands
UnacceptOthers(cands, candidateId, qid) ==
  [i \in 1..Len(cands) |->
     IF i # candidateId /\ cands[i].question_id = qid
       THEN [cands[i] EXCEPT !.is_accepted = FALSE] ELSE cands[i]]

\* lines 1165-1174, candidate being the row read at lines 1141-1145
ManuallyAccepted(row, candidate, candidateId) ==
  [row EXCEPT !.status = "answered", !.answered_by = Some(candidate.sender),
              !.answered_at = Some(candidate.timestamp),
              !.answer_confidence = Some(candidate.confidence),
              !.answer_reason = Some("manually accepted"),
              !.answer_preview = Some("body"), !.answer_id = Some(candidateId),
              !.manually_resolved = TRUE]

\* The results _callAPI hands to a callback (lines 2144-2152) that the model
\* tells apart, and null for "no result".
AIResults ==
  { [intent |-> "question", questionType |-> Some("yes_no"), priority |-> "high", confidence |-> 90],
    [intent |-> "fyi", questionType |-> Null, priority |-> "normal", confidence |-> 80],
    [intent |-> "fyi", questionType |-> Null, priority |-> "normal", confidence |-> 79] }

\* The same, with results at the edge of the promotion threshold.
CallbackResults ==
  AIResults \cup
  { [intent |-> "question", questionType |-> Null, priority |-> "normal", confidence |-> 70],
    [intent |-> "question", questionType |-> Null, priority |-> "normal", confidence |-> 69] }

\* line 1204
AIDismissesAbove(row, aiResult) ==
  aiResult.intent # "question" /\ aiResult.confidence > dismissThreshold
AIDismisses(row, aiResult) ==
  aiResult.intent # "question" /\ aiResult.confidence >= dismissThreshold

\* lines 1189-1210: the update applied to the row
AIUpdated(row, aiResult) ==
  LET r1 == [row EXCEPT !.classified_by = "ai"]
      r2 == IF aiResult.intent = "question" /\ aiResult.questionType # Null
              THEN [r1 EXCEPT !.question_type = aiResult.questionType[1],
                              !.priority = aiResult.priority]
              ELSE r1
  IN  IF AIDismisses(row, aiResult)
        THEN [r2 EXCEPT !.status = "dismissed", !.dismissed = TRUE,
                        !.dismissed_by = Some("AI (not a question)"),
                        !.dismissed_at = Some(now)]
        ELSE r2

InitStore ==
  /\ questions = <<>>
  /\ answer_candidates = <<>>

\* The inputs of the operations.
Chats == {1}
Senders == {"ana"}
Actors == {Null}
MessageTimes == {StartTime + 1000, StartTime + 5000, StartTime + maxAge + 1000}
QuestionIds == 1..MaxQuestions
CandidateIds == 1..MaxCandidates
AIInputs == {Some(r) : r \in AIResults} \cup {Null}

\* addQuestion (lines 865-908), for a chat whose questions are tracked
AddQuestion ==
  /\ Len(questions) < MaxQuestions
  /\ \E chat \in Chats :
       questions' = Append(questions, NewQuestion(chat, StartTime))
  /\ UNCHANGED <<answer_candidates, queueVars, scoreVars, taskVars, enqueuedAt>>

\* checkForAnswers (lines 922-997) for a message with a body, scoreAnswer
\* returning scores[q] for the open question q, the table answer_candidates
\* having room for limit rows
CheckedWith(chat, sender, ts, scores, limit) ==
  LET t == CheckAll([q |-> questions, c |-> answer_candidates],
                    PendingQs(chat), sender, ts, scores)
  IN  /\ Len(t.c) <= limit
      /\ questions' = t.q
      /\ answer_candidates' = t.c

Checked(chat, sender, ts, limit) ==
  IF PendingQs(chat) = {}
    THEN UNCHANGED storeVars
    ELSE \E scores \in [PendingQs(chat) -> ScoreResults] :
           CheckedWith(chat, sender, ts, scores, limit)

CheckForAnswers ==
  \E chat \in Chats, sender \in Senders, ts \in MessageTimes :
    /\ PendingQs(chat) # {}
    /\ Checked(chat, sender, ts, MaxCandidates)
    /\ UNCHANGED <<queueVars, scoreVars, taskVars, enqueuedAt>>

\* checkForAnswers while a single candidate is followed through the life of
\* its question
CheckForAnswersReviewed ==
  \E chat \in Chats, sender \in Senders, ts \in MessageTimes :
    /\ PendingQs(chat) # {}
    /\ Checked(chat, sender, ts, MaxReviewCandidates)
    /\ UNCHANGED <<queueVars, scoreVars, taskVars, enqueuedAt>>

\* Messages at the edges of the answer window, scored at the edges of the
\* thresholds.
EdgeTimes ==
  {StartTime + minAnswerAgeMs - 1, StartTime + minAnswerAgeMs,
   StartTime + maxAge, StartTime + maxAge + 1}

EdgeScores ==
  { [confidence |-> 19,
     signals |-> << [name |-> "keyword_overlap", score |-> 16, detail |-> "16% keyword overlap"],
                    [name |-> "time_proximity", score |-> 15, detail |-> "within 10 minutes"] >>],
    [confidence |-> 20,
     signals |-> << [name |-> "time_proximity", score |-> 20, detail |-> "within 2 minutes"] >>],
    [confidence |-> 49,
     signals |-> << [name |-> "answer_pattern", score |-> 35, detail |-> "affirmative"],
                    [name |-> "time_proximity", score |-> 20, detail |-> "within 2 minutes"],
                    [name |-> "conversation_proximity", score |-> 15, detail |-> "1 messages between"] >>],
    [confidence |-> 50,
     signals |-> << [name |-> "time_proximity", score |-> 20, detail |-> "within 2 minutes"],
                    [name |-> "conversation_proximity", score |-> 15, detail |-> "1 messages between"],
                    [name |-> "substantive_reply", score |-> 15, detail |-> "detailed response"] >>] }

\* checkForAnswers for such a message
CheckEdge(chat, sender, ts, scores) ==
  /\ CheckedWith(chat, sender, ts, scores, MaxEdgeCandidates)
  /\ UNCHANGED <<queueVars, scoreVars, taskVars, enqueuedAt>>

CheckForAnswersAtEdge ==
  \E chat \in Chats, sender \in Senders, ts \in EdgeTimes :
    \E scores \in [PendingQs(chat) -> EdgeScores] : CheckEdge(chat, sender, ts, scores)

\* Messages whose signals weigh differently in the total than their scores
\* compare (analyzer.js 354-431): scores and confidence in hundredths.
ReasonScores ==
  { [confidence |-> 35,
     signals |-> << [name |-> "time_proximity", score |-> 20, detail |-> "within 2 minutes"],
                    [name |-> "conversation_proximity", score |-> 15, detail |-> "1 messages between"] >>],
    [confidence |-> 69,
     signals |-> << [name |-> "answer_pattern", score |-> 85, detail |-> "affirmative response"],
                    [name |-> "time_proximity", score |-> 20, detail |-> "within 2 minutes"],
                    [name |-> "conversation_proximity", score |-> 15, detail |-> "1 messages between"] >>],
    [confidence |-> 70,
     signals |-> << [name |-> "answer_pattern", score |-> 50, detail |-> "answer-like pattern"],
                    [name |-> "addresses_asker", score |-> 30, detail |-> "mentions ana"],
                    [name |-> "time_proximity", score |-> 20, detail |-> "within 2 minutes"] >>] }

\* checkForAnswers for such a message
CheckReason(chat, sender, ts, scores) ==
  /\ CheckedWith(chat, sender, ts, scores, MaxCandidates)
  /\ UNCHANGED <<queueVars, scoreVars, taskVars, enqueuedAt>>

CheckForAnswersReasoned ==
  \E chat \in Chats, sender \in Senders, ts \in MessageTimes :
    \E scores \in [PendingQs(chat) -> ReasonScores] :
      PendingQs(chat) # {} /\ CheckReason(chat, sender, ts, scores)

\* markQuestionAnswered(id, answeredBy) (lines 1024-1036)
Resolve(id, answeredBy) ==
  /\ LET F(row) == MarkedAnswered(row, answeredBy)
     IN  questions' = UpdateRow(questions, id, F)
  /\ UNCHANGED <<answer_candidates, queueVars, scoreVars, taskVars, enqueuedAt>>

MarkQuestionAnswered == \E id \in QuestionIds, answeredBy \in Actors : Resolve(id, answeredBy)

\* dismissQuestion(id, dismissedBy) (lines 1038-1048)
Dismiss(id, dismissedBy) ==
  /\ LET F(row) == Dismissed(row, dismissedBy)
     IN  questions' = UpdateRow(questions, id, F)
  /\ UNCHANGED <<answer_candidates, queueVars, scoreVars, taskVars, enqueuedAt>>

DismissQuestion == \E id \in QuestionIds, dismissedBy \in Actors : Dismiss(id, dismissedBy)

\* reopenQuestion(id) (lines 1050-1067)
Reopen(id) ==
  /\ questions' = UpdateRow(questions, id, Reopened)
  /\ UNCHANGED <<answer_candidates, queueVars, scoreVars, taskVars, enqueuedAt>>

ReopenQuestion == \E id \in QuestionIds : Reopen(id)

\* acceptAnswerCandidate(candidateId) (lines 1140-1176), run to completion
Accept(candidateId) ==
  /\ IF candidateId \in 1..Len(answer_candidates)
       THEN LET candidate == answer_candidates[candidateId]
                F(row) == ManuallyAccepted(row, candidate, candidateId)
            IN  /\ answer_candidates' =
                     UnacceptOthers(AcceptThis(answer_candidates, candidateId),
                                    candidateId, candidate.question_id)
                /\ questions' = UpdateRow(questions, candidate.question_id, F)
       ELSE UNCHANGED <<questions, answer_candidates>>
  /\ UNCHANGED <<queueVars, scoreVars, taskVars, enqueuedAt>>

AcceptAnswerCandidate == \E candidateId \in CandidateIds : Accept(candidateId)

\* acceptAnswerCandidate followed from one awaited request to the next, so
\* that the requests of several calls interleave.  An activation is
\* [candidateId, candidate (the row read at lines 1141-1145), pc], pc naming
\* the request it makes next.
\* lines 1141-1147: the candidate is read; the call returns when there is none
AcceptSelects(candidateId) ==
  /\ Len(accepts) < MaxAccepts
  /\ accepts' = Append(accepts,
       IF candidateId \in 1..Len(answer_candidates)
         THEN [candidateId |-> candidateId,
               candidate |-> Some(answer_candidates[candidateId]), pc |-> "mark"]
         ELSE [candidateId |-> candidateId, candidate |-> Null, pc |-> "done"])
  /\ UNCHANGED <<queueVars, storeVars, scoreVars, checks, enqueuedAt>>

\* lines 1150-1153
AcceptMarks(k) ==
  /\ accepts[k].pc = "mark"
  /\ answer_candidates' = AcceptThis(answer_candidates, accepts[k].candidateId)
  /\ accepts' = [accepts EXCEPT ![k].pc = "unaccept"]
  /\ UNCHANGED <<questions, queueVars, scoreVars, checks, enqueuedAt>>

\* lines 1156-1160
AcceptUnaccepts(k) ==
  /\ accepts[k].pc = "unaccept"
  /\ answer_candidates' = UnacceptOthers(answer_candidates, accepts[k].candidateId,
                                         accepts[k].candidate[1].question_id)
  /\ accepts' = [accepts EXCEPT ![k].pc = "update"]
  /\ UNCHANGED <<questions, queueVars, scoreVars, checks, enqueuedAt>>

\* lines 1163-1175
AcceptUpdates(k) ==
  /\ accepts[k].pc = "update"
  /\ LET F(row) == ManuallyAccepted(row, accepts[k].candidate[1], accepts[k].candidateId)
     IN  questions' = UpdateRow(questions, accepts[k].candidate[1].question_id, F)
  /\ accepts' = [accepts EXCEPT ![k].pc = "done"]
  /\ UNCHANGED <<answer_candidates, queueVars, scoreVars, checks, enqueuedAt>>

AcceptIsCalled == \E candidateId \in CandidateIds : AcceptSelects(candidateId)
AcceptMarked == \E k \in 1..Len(accepts) : AcceptMarks(k)
AcceptUnaccepted == \E k \in 1..Len(accepts) : AcceptUnaccepts(k)
AcceptUpdated == \E k \in 1..Len(accepts) : AcceptUpdates(k)

\* checkForAnswers followed from one awaited request to the next.  An
\* activation is [sender, ts, scores, todo, candidateId, pc]: todo the
\* questions read at lines 929-933 that the loop has yet to record a candidate
\* for (those inside the window and scored at least recordThreshold, in
\* ascending order), candidateId the row inserted for Head(todo), pc the
\* request made next.
RECURSIVE Ascending(_)
Ascending(ids) ==
  IF ids = {} THEN <<>>
  ELSE LET q == CHOOSE x \in ids : \A y \in ids : x <= y
       IN  <<q>> \o Ascending(ids \ {q})

\* lines 941 and 956: the questions of the snapshot the loop does not skip
Recorded(pending, ts, scores) ==
  {q \in pending : /\ ~OutsideWindow(ts - questions[q].timestamp)
                   /\ scores[q].confidence >= recordThreshold}

AfterRound(check) ==
  LET rest == Tail(check.todo)
  IN  [check EXCEPT !.todo = rest, !.candidateId = Null,
                    !.pc = IF rest = <<>> THEN "done" ELSE "insert"]

\* lines 929-937: the open questions of the chat are read
CheckSelects(chat, sender, ts, scores) ==
  /\ Len(checks) < MaxChecks
  /\ LET todo == Ascending(Recorded(PendingQs(chat), ts, scores))
     IN  checks' = Append(checks,
           [sender |-> sender, ts |-> ts, scores |-> scores, todo |-> todo,
            candidateId |-> Null, pc |-> IF todo = <<>> THEN "done" ELSE "insert"])
  /\ UNCHANGED <<queueVars, storeVars, scoreVars, accepts, enqueuedAt>>

\* lines 957-972: the candidate of the next question is inserted
CheckInserts(k) ==
  LET check == checks[k]
      q == Head(check.todo)
      cand == NewCandidate(q, check.sender, check.ts, check.scores[q].confidence)
  IN  /\ check.pc = "insert"
      /\ Len(answer_candidates) < MaxCandidates
      /\ answer_candidates' = Append(answer_candidates, cand)
      /\ checks' = [checks EXCEPT ![k] =
           IF cand.is_accepted
             THEN [check EXCEPT !.candidateId = Some(Len(answer_candidates) + 1),
                                !.pc = "update"]
             ELSE AfterRound(check)]
      /\ UNCHANGED <<questions, queueVars, scoreVars, accepts, enqueuedAt>>

\* lines 975-991: the question is updated, whatever its status is by now
CheckUpdates(k) ==
  LET check == checks[k]
      q == Head(check.todo)
      Answer(row) == AutoAnswered(row, check.sender, check.ts, check.scores[q],
                                  check.candidateId[1])
  IN  /\ check.pc = "update"
      /\ questions' = UpdateRow(questions, q, Answer)
      /\ checks' = [checks EXCEPT ![k] = AfterRound(check)]
      /\ UNCHANGED <<answer_candidates, queueVars, scoreVars, accepts, enqueuedAt>>

CheckIsCalled ==
  \E chat \in Chats, sender \in Senders, ts \in MessageTimes :
    /\ PendingQs(chat) # {}
    /\ \E scores \in [PendingQs(chat) -> ScoreResults] :
         CheckSelects(chat, sender, ts, scores)
CheckInserted == \E k \in 1..Len(checks) : CheckInserts(k)
CheckUpdated == \E k \in 1..Len(checks) : CheckUpdates(k)

\* updateQuestionAIClassification(id, aiResult) (lines 1186-1216), as the
\* onClassified callback of whatsapp.js 405-407 calls it for the question's job
AIClassified(id, aiResult) ==
  /\ IF aiResult = Null
       THEN UNCHANGED questions
       ELSE LET F(row) == AIUpdated(row, aiResult[1])
            IN  questions' = UpdateRow(questions, id, F)
  /\ UNCHANGED <<answer_candidates, queueVars, scoreVars, taskVars, enqueuedAt>>

UpdateQuestionAIClassification ==
  \E id \in QuestionIds, aiResult \in AIInputs : AIClassified(id, aiResult)

\* ------------------------------------------------ message handler
\* whatsapp.js 426: the result promotes the message to a question
PromotesAny(aiResult) == aiResult.intent = "question"
Promotes(aiResult) ==
  aiResult.intent = "question" /\ aiResult.confidence >= promoteThreshold

\* the row promoteMessageToQuestion inserts (lines 1242-1260)
PromotedQuestion(chat, ts, aiResult) ==
  [NewQuestion(chat, ts) EXCEPT
     !.priority = aiResult.priority,
     !.question_type = IF aiResult.questionType # Null THEN aiResult.questionType[1]
                                                      ELSE "general",
     !.classified_by = "ai"]

\* The timestamp of a handled message: shortly after the questions' asked_at.
HandledTimes == {StartTime + 5000}

\* The answers of the service the callbacks can tell apart: one that is retried
\* until the attempts are used up, a body that is no array, the full array,
\* and an array shorter than the batch.
HandledKinds == {"err", "nonarray", "ok", "short"}

HandledCallAnswered ==
  \E k \in 1..Len(inflight), kind \in HandledKinds : CallAnswered(k, kind)

\* The handler of a message the analyzer takes for a question (whatsapp.js
\* 366-409): addQuestion, then queueMessage with the callback of line 405.
HandleQuestion ==
  /\ nextJob <= MaxPipeJobs
  /\ \E chat \in Chats :
       /\ questions' = Append(questions, NewQuestion(chat, StartTime))
       /\ jobs' = Append(jobs, [kind |-> "verify", question |-> Len(questions) + 1,
                                chat |-> chat, timestamp |-> StartTime])
  /\ Enqueue
  /\ UNCHANGED <<answer_candidates, scoreVars, taskVars, enqueuedAt>>

\* The handler of a group message the analyzer does not take for a question
\* (whatsapp.js 414-474, 476-493): queueMessage with the callback of line
\* 424, then checkForAnswers.
HandleOther ==
  /\ nextJob <= MaxPipeJobs
  /\ \E chat \in Chats, sender \in Senders, ts \in HandledTimes :
       /\ jobs' = Append(jobs, [kind |-> "check", question |-> 0,
                                chat |-> chat, timestamp |-> ts])
       /\ Checked(chat, sender, ts, MaxPipeCandidates)
  /\ Enqueue
  /\ UNCHANGED <<scoreVars, taskVars, enqueuedAt>>

\* What the callback of a job does to the tables when it is given aiResult:
\* whatsapp.js 405-407 for a question's job, 424-437 for a message's (the
\* approval branch of lines 440-473 writes to another table).
OnClassified(job, aiResult) ==
  /\ IF aiResult = Null
       THEN UNCHANGED questions
     ELSE IF job.kind = "verify"
       THEN LET F(row) == AIUpdated(row, aiResult[1])
            IN  questions' = UpdateRow(questions, job.question, F)
     ELSE IF Promotes(aiResult[1])
       THEN questions' = Append(questions,
                                PromotedQuestion(job.chat, job.timestamp, aiResult[1]))
     ELSE UNCHANGED questions
  /\ UNCHANGED answer_candidates

\* The result a callback is given: null, or what _callAPI made of the object
\* the service returned at the job's position.
CallbackInputs == {Some(r) : r \in CallbackResults} \cup {Null}

GivenResults(result) == IF result = Null THEN {Null} ELSE {Some(r) : r \in CallbackResults}

\* The job whose callback the activation c of _processBatch is awaiting.
Awaited(c) == jobs[c.batch[c.i]]

\* The awaited onClassified of line 2028, given aiResult, has done its work
\* and settles.
CallbackGiven(k, aiResult) ==
  /\ Settle(k)
  /\ OnClassified(Awaited(inflight[k]), aiResult)
  /\ UNCHANGED <<jobs, scoreVars, taskVars, enqueuedAt>>

OnClassifiedSettles ==
  \E k \in 1..Len(inflight) :
    \E aiResult \in GivenResults(ResultAt(inflight[k].results, inflight[k].i)) :
      CallbackGiven(k, aiResult)

\* ------------------------------------------------------- scoreAnswer
\* Scores are in hundredths (0.85 is 85); the running total of scoreAnswer
\* is in units of 0.00001, in which every weighted signal is a whole number.
ScoreUnit == 100000

\* What scoreAnswer is given, as far as it reads it:
\*   quoted     score of the quoted-reply signal (lines 339-351), 0 when none
\*   pattern    _getAnswerPatternScore           overlap  _keywordOverlapScore
\*   addressed  the body names the asker         minutes  |timeDeltaMs| / 60000
\*   recent     recentMsgCount                   self     candidate.sender = question.sender
\*   fromMe     isFromMe                         length   length of the trimmed body
\*                                                          (0: the early return of line 337)
\*   type       _questionTypeAnswerMatch
ScoreInputs ==
  [quoted : {0, 100}, pattern : {0, 50, 85}, overlap : {0, 50}, addressed : BOOLEAN,
   minutes : {1, 30, 300}, recent : {1, 8}, self : BOOLEAN, fromMe : BOOLEAN,
   length : {0, 10, 40, 120}, type : {0, 90}]

\* lines 379-394
TimeProximity(minutes) ==
  IF minutes <= 2 THEN 20
  ELSE IF minutes <= 10 THEN 15
  ELSE IF minutes <= 60 THEN 8
  ELSE IF minutes > 240 THEN 0 - 10
  ELSE 0

\* lines 396-403
ConversationProximity(recent) ==
  IF recent <= 2 THEN 15 ELSE IF recent <= 5 THEN 8 ELSE 0

\* lines 417-424
Substantive(length) ==
  IF length > 100 THEN 15 ELSE IF length > 30 THEN 5 ELSE 0

\* line 408: totalScore *= 0.3
Penalised(total) == (total * 3) \div 10

\* lines 339-403: the running total when the self-reply check is reached
TotalBeforeSelf(in) ==
  in.quoted * 1000 + in.pattern * 400 + in.overlap * 250
  + (IF in.addressed THEN 30000 ELSE 0)
  + TimeProximity(in.minutes) * 1000 + ConversationProximity(in.recent) * 1000

\* lines 411-431: what is added after the self-reply check
AddedAfterSelf(in) ==
  (IF in.fromMe /\ ~in.self THEN 25000 ELSE 0)
  + Substantive(in.length) * 1000 + in.type * 200

\* lines 433-434: clamped to 0..1 and rounded to hundredths
ConfidenceUnclamped(total) == (total + 500) \div 1000
Confidence(total) ==
  LET clamped == Max(0, Min(ScoreUnit, total))
  IN  (clamped + 500) \div 1000

\* scoreAnswer; penalty tells whether the multiplication of line 408 is made
\* for a self-reply
ScoreAnswer(in, penalty) ==
  LET before == TotalBeforeSelf(in)
      atSelf == IF in.self /\ penalty THEN Penalised(before) ELSE before
  IN  IF in.length < 1 THEN 0 ELSE Confidence(atSelf + AddedAfterSelf(in))

\* --------------------------------------------------- analyzeQuestion
\* A message body is a sequence of words separated by single blanks and
\* followed by marks question marks: [words |-> <<"Is", "it", "done">>,
\* marks |-> 1] is "Is it done?".  Words are made of letters (and ' or -), so
\* the \b of the source's patterns falls between the words.

\* toLowerCase on the words that are not lower case already
Lower(w) ==
  CASE w = "Can" -> "can"
    [] w = "ASAP" -> "asap"
    [] w = "When" -> "when"
    [] w = "Is" -> "is"
    [] w = "Why" -> "why"
    [] OTHER -> w

\* text.toLowerCase().trim()
LowerText(t) == [t EXCEPT !.words = [i \in 1..Len(t.words) |-> Lower(t.words[i])]]

RECURSIVE WordsLength(_)
WordsLength(ws) == IF ws = <<>> THEN 0 ELSE Len(Head(ws)) + WordsLength(Tail(ws))

\* body.length
TextLength(t) ==
  WordsLength(t.words) + (IF Len(t.words) > 1 THEN Len(t.words) - 1 ELSE 0) + t.marks

\* An alternation of the source's patterns is a set of phrases, a phrase a
\* sequence of words: (go ahead|proceed) is {<<"go", "ahead">>, <<"proceed">>}.
W(ws) == {<<w>> : w \in ws}
Cat(A, B) == {a \o b : a \in A, b \in B}

\* the words i to j of t
Words(t, i, j) == SubSeq(t.words, i, j)

\* /\b(P)\b/
Contains(t, P) ==
  \E i \in 1..Len(t.words) : \E j \in i..Len(t.words) : Words(t, i, j) \in P
\* /\b(A)\b.*\b(B)\b/
ContainsThen(t, A, B) ==
  \E i \in 1..Len(t.words) : \E j \in i..Len(t.words) :
    /\ Words(t, i, j) \in A
    /\ \E k \in (j + 1)..Len(t.words) : \E l \in k..Len(t.words) : Words(t, k, l) \in B
\* /^(P)\b/
StartsWith(t, P) == \E j \in 1..Len(t.words) : Words(t, 1, j) \in P
\* /\b(P)\s*\?/ (the question marks stand at the end of the body)
Asked(t, P) ==
  t.marks > 0 /\ \E i \in 1..Len(t.words) : Words(t, i, Len(t.words)) \in P
\* /^(P)$/
Is(t, P) == t.words \in P

\* _isNonQuestion (lines 104-129); the emoji of the first pattern are left out
ReactionWords ==
  W({"lol", "haha", "omg", "wow", "nice", "great", "awesome", "cool", "ok", "okay"})
  \cup {<<"good", "morning">>, <<"good", "afternoon">>, <<"good", "evening">>}
  \cup W({"gm", "ga", "hi", "hello", "hey", "sup", "yo", "right", "ikr", "same", "true",
          "facts", "huh", "hmm", "eh", "ah", "oh", "really", "seriously"})
  \cup {<<"i", "know", "right">>, <<"for", "real">>}

DoneWords ==
  W({"done", "sorted", "fixed", "handled", "resolved", "completed", "finished", "sent",
     "updated", "approved", "confirmed", "noted", "acknowledged", "received",
     "accepted", "rejected", "denied"})

WhatWords == W({"what", "wut", "wat"})

\* lines 111-126: the exclusion patterns
Excluded(t) ==
  \/ Is(t, ReactionWords) /\ t.marks <= 1
  \/ Is(t, DoneWords) /\ t.marks = 0
  \/ Is(t, WhatWords)
  \/ t.words = <<>>

\* line 108
minQuestionLength == 5

IsNonQuestion(t) ==
  LET lower == LowerText(t)
  IN  TextLength(lower) < minQuestionLength \/ Excluded(lower)

\* _classifyQuestionType (lines 135-240): the rule groups, in the order of
\* the source
\* lines 139-142
yesNoStarters ==
  {"is", "are", "was", "were", "do", "does", "did", "can", "could", "would", "should",
   "will", "shall", "have", "has", "had", "may", "might", "isn't", "aren't", "wasn't",
   "weren't", "don't", "doesn't", "didn't", "can't", "couldn't", "wouldn't",
   "shouldn't", "won't"}

yesNoMaxLength == 80

YesNo(t) ==
  /\ Len(t.words) > 0 /\ t.words[1] \in yesNoStarters
  /\ t.marks > 0 \/ TextLength(t) < yesNoMaxLength

WhatIs == {<<"what's">>, <<"what", "is">>}
HowIs == {<<"how's">>, <<"how", "is">>}

\* lines 147-156
approveWords ==
  W({"approve", "approved", "approval", "sign-off", "greenlight"})
  \cup {<<"sign", "off">>, <<"green", "light">>}
canWeProceed ==
  Cat(Cat(W({"can"}), W({"i", "we"})),
      W({"proceed", "start", "begin"}) \cup {<<"go", "ahead">>, <<"move", "forward">>})
isThisOk ==
  Cat({<<"is", "this">>, <<"does", "this">>, <<"are", "we">>},
      W({"ok", "okay", "good", "ready", "approved"}))
readyToGo ==
  Cat(Cat(W({"ready", "good"}), W({"to"})),
      W({"go", "send", "ship", "launch", "submit", "publish"}))

Approval(t) ==
  \/ Contains(t, approveWords) /\ t.marks > 0
  \/ Contains(t, canWeProceed)
  \/ Contains(t, isThisOk)
  \/ Contains(t, {<<"permission", "to">>})
  \/ Contains(t, readyToGo) /\ t.marks > 0

\* lines 159-169
whenWords == W({"when"}) \cup {<<"what", "time">>, <<"what", "day">>, <<"which", "day">>}
meetingWords == W({"meeting", "call", "session", "standup", "sync"})
freeWords == meetingWords \cup W({"available", "free"})
scheduleWords == W({"when", "schedule"}) \cup {<<"what", "time">>}
whatIsTheTime == Cat(Cat(WhatIs, {<<"the">>, <<"a", "good">>}), W({"time"}))
whenCanWe == Cat(Cat(W({"when"}), W({"can", "should", "will", "do"})), W({"we", "you", "i", "they"}))
availabilityWords == W({"availability", "availabilities", "available"})

Scheduling(t) ==
  \/ ContainsThen(t, whenWords, freeWords)
  \/ ContainsThen(t, meetingWords, scheduleWords)
  \/ Contains(t, W({"schedule"}))
  \/ Contains(t, whatIsTheTime)
  \/ Contains(t, whenCanWe)
  \/ Asked(t, availabilityWords)

\* lines 172-182
statusWords == W({"status", "update", "progress", "eta", "timeline", "deadline"})
whatIsTheStatus ==
  Cat(Cat(WhatIs, W({"the"})), W({"status", "update", "progress", "eta", "plan", "timeline"}))
anyUpdate == Cat(W({"any", "got"}), W({"update", "news", "progress"}))
howIsItGoing ==
  Cat(Cat(HowIs, W({"it", "that", "the", "this"})), W({"going", "coming", "progressing"}))
whereDoWeStand ==
  Cat(Cat(Cat(W({"where"}), W({"are", "do"})), W({"we", "you", "they"})), W({"stand"}))

StatusCheck(t) ==
  \/ Contains(t, statusWords) /\ t.marks > 0
  \/ Contains(t, whatIsTheStatus)
  \/ Contains(t, anyUpdate)
  \/ Contains(t, howIsItGoing)
  \/ Contains(t, whereDoWeStand)
  \/ Contains(t, {<<"how", "far", "along">>})

\* lines 185-195
canYou == Cat(W({"can"}), W({"you", "someone", "anyone", "anybody", "we"}))
pleaseVerbs ==
  W({"send", "do", "make", "create", "check", "look", "handle", "fix", "update", "share"})
canYouVerbs ==
  pleaseVerbs \cup W({"forward", "upload", "post", "add", "remove"}) \cup {<<"set", "up">>}
couldYou == Cat(W({"could"}), W({"you", "someone", "anyone"}))
wouldYouMind ==
  Cat(Cat(W({"would"}), W({"you", "someone"})),
      W({"mind", "please"}) \cup {<<"be", "able", "to">>})
needYouTo == Cat(Cat(W({"need"}), W({"you", "someone", "help"})), W({"to"}))
whoCan ==
  Cat(W({"who"}) \cup {<<"which", "one", "of", "you">>},
      W({"can", "will"}) \cup {<<"is", "going", "to">>})

ActionRequest(t) ==
  \/ ContainsThen(t, canYou, canYouVerbs)
  \/ Contains(t, couldYou)
  \/ Contains(t, wouldYouMind)
  \/ ContainsThen(t, W({"please"}), pleaseVerbs)
  \/ Contains(t, needYouTo)
  \/ Contains(t, whoCan)

\* lines 198-211
whatDoYouThink ==
  Cat(Cat({<<"what", "do">>}, W({"you", "y'all", "everyone", "we"}) \cup {<<"you", "all">>}),
      W({"think"}))
whatIsYourTake == Cat(Cat(WhatIs, W({"your"})), W({"take", "view", "opinion", "thought"}))
goodIdea ==
  Cat(W({"good", "bad", "better", "best", "right", "wrong"}),
      W({"idea", "approach", "way", "option", "choice"}))
shouldWe == Cat(W({"should", "shall"}), W({"we", "i"}))

Opinion(t) ==
  \/ Contains(t, whatDoYouThink)
  \/ Asked(t, W({"thoughts"}))
  \/ Contains(t, W({"wdyt"}))
  \/ Asked(t, W({"opinion", "opinions"}))
  \/ Asked(t, W({"feedback"}))
  \/ Contains(t, whatIsYourTake)
  \/ Asked(t, goodIdea)
  \/ Contains(t, shouldWe)
  \/ Contains(t, W({"prefer", "preference"})) /\ t.marks > 0

\* lines 214-220
whWords == W({"who", "what", "where", "when", "why", "how", "which"})

InfoSeeking(t) ==
  \/ StartsWith(t, whWords \cup W({"whose", "whom"}))
  \/ Contains(t, whWords) /\ t.marks > 0

\* line 223
TrailingMark(t) == t.marks > 0

\* lines 226-237
anyoneKnow ==
  Cat({<<"any", "one">>, <<"anyone">>, <<"any", "body">>, <<"anybody">>},
      W({"know", "here", "available", "free"}))
wonderingIf == Cat(W({"wondering", "curious"}), W({"if", "about", "whether"}))

Implicit(t) ==
  \/ Contains(t, anyoneKnow)
  \/ Contains(t, {<<"any", "idea">>, <<"any", "ideas">>})
  \/ Contains(t, {<<"do", "you", "have">>})
  \/ Contains(t, {<<"have", "you">>})
  \/ Contains(t, {<<"is", "there">>})
  \/ Contains(t, wonderingIf)

\* _classifyQuestionType: Null when no group matches
ClassifyQuestionTypeActionFirst(text) ==
  LET t == LowerText(text)
  IN  IF ActionRequest(t) THEN Some("action_request")
      ELSE IF YesNo(t) THEN Some("yes_no")
      ELSE IF Approval(t) THEN Some("approval")
      ELSE IF Scheduling(t) THEN Some("scheduling")
      ELSE IF StatusCheck(t) THEN Some("status_check")
      ELSE IF Opinion(t) THEN Some("opinion")
      ELSE IF InfoSeeking(t) THEN Some("info_seeking")
      ELSE IF TrailingMark(t) THEN Some("general")
      ELSE IF Implicit(t) THEN Some("general")
      ELSE Null
ClassifyQuestionType(text) ==
  LET t == LowerText(text)
  IN  IF YesNo(t) THEN Some("yes_no")
      ELSE IF Approval(t) THEN Some("approval")
      ELSE IF Scheduling(t) THEN Some("scheduling")
      ELSE IF StatusCheck(t) THEN Some("status_check")
      ELSE IF ActionRequest(t) THEN Some("action_request")
      ELSE IF Opinion(t) THEN Some("opinion")
      ELSE IF InfoSeeking(t) THEN Some("info_seeking")
      ELSE IF TrailingMark(t) THEN Some("general")
      ELSE IF Implicit(t) THEN Some("general")
      ELSE Null

\* _classifyPriority (lines 245-277); the score is counted in halves
urgentWords ==
  W({"urgent", "asap", "emergency", "critical", "immediately", "eod", "blocker",
     "blocking", "stuck"})
  \cup {<<"right", "now">>, <<"time", "sensitive">>, <<"deadline", "today">>,
        <<"end", "of", "day">>}

\* escalat has no closing \b: the words that begin with it
highWords ==
  W({"important", "priority", "needed", "required", "must", "deadline", "client",
     "customer", "partner", "escalate", "escalated", "escalation"})
  \cup Cat(W({"by"}), W({"today", "tomorrow", "monday", "tuesday", "wednesday",
                         "thursday", "friday"}))

lowWords ==
  W({"whenever", "fyi", "btw"})
  \cup {<<"just", "wondering">>, <<"just", "curious">>, <<"no", "rush">>,
        <<"no", "hurry">>, <<"low", "priority">>, <<"not", "urgent">>}

PriorityScore(text, questionType, directedAtMe) ==
  LET t == LowerText(text)
  IN  (IF Contains(t, urgentWords) THEN 6 ELSE 0)
      + (IF Contains(t, highWords) THEN 4 ELSE 0)
      + (IF directedAtMe THEN 2 ELSE 0)
      + (IF questionType = "approval" THEN 2 ELSE 0)
      + (IF questionType = "action_request" THEN 1 ELSE 0)
      + (IF questionType = "status_check" THEN 1 ELSE 0)
      - (IF Contains(t, lowWords) THEN 4 ELSE 0)

ClassifyPriority(text, questionType, directedAtMe) ==
  LET score == PriorityScore(text, questionType, directedAtMe)
  IN  IF score >= 6 THEN "urgent"
      ELSE IF score >= 4 THEN "high"
      ELSE IF score <= 0 - 2 THEN "low"
      ELSE "normal"

\* line 80
minBodyLength == 3

\* analyzeQuestion (lines 78-99) for the trimmed body text: Null, or the
\* type and priority of the question (keywords are not modelled)
AnalyzeQuestion(text, directedAtMe) ==
  IF TextLength(text) < minBodyLength THEN Null
  ELSE IF IsNonQuestion(text) THEN Null
  ELSE LET questionType == ClassifyQuestionType(text)
       IN  IF questionType = Null THEN Null
           ELSE Some([questionType |-> questionType[1],
                      priority |-> ClassifyPriority(text, questionType[1], directedAtMe),
                      directedAtMe |-> directedAtMe])

\* The bodies analyzeQuestion is called with: every body of up to
\* MaxTextWords words of Vocabulary, and the named ones.
Vocabulary ==
  {"can", "you", "send", "when", "meeting", "status", "why", "please", "should", "we"}

Marks == {0, 1, 2}

CanYouSend == [words |-> <<"Can", "you", "send", "me", "the", "invoice", "ASAP">>, marks |-> 1]
WhenMeeting == [words |-> <<"When", "is", "the", "meeting">>, marks |-> 1]
IsReportDone == [words |-> <<"Is", "the", "report", "done">>, marks |-> 1]

NamedTexts ==
  { CanYouSend, WhenMeeting, IsReportDone,
    [words |-> <<"just", "wondering", "if", "it", "works">>, marks |-> 0],
    [words |-> <<"the", "report", "is", "there">>, marks |-> 0],
    [words |-> <<"any", "update", "on", "the", "client", "invoice">>, marks |-> 0],
    [words |-> <<"Why">>, marks |-> 1],
    [words |-> <<"lol">>, marks |-> 0],
    [words |-> <<"thanks">>, marks |-> 0],
    [words |-> <<"any", "thoughts">>, marks |-> 1],
    [words |-> <<"please", "approve", "the", "invoice">>, marks |-> 1],
    [words |-> <<"is", "this", "ok">>, marks |-> 0],
    [words |-> <<"what">>, marks |-> 2],
    [words |-> <<"hello">>, marks |-> 1],
    [words |-> <<"done">>, marks |-> 0] }

RECURSIVE WordSeqs(_)
WordSeqs(n) ==
  IF n = 0 THEN {<<>>}
  ELSE LET shorter == WordSeqs(n - 1)
       IN  shorter \cup {Append(ws, w) : ws \in shorter, w \in Vocabulary}

ShortTexts == {[words |-> ws, marks |-> m] : ws \in WordSeqs(MaxTextWords), m \in Marks}

TextInputs == ShortTexts \cup NamedTexts

\* analyzeQuestion is called (one call is followed)
AnalyzeQuestionCalled ==
  /\ analyzed = Null
  /\ \E text \in TextInputs, directedAtMe \in BOOLEAN :
       analyzed' = Some([text |-> text,
                         questionType |-> ClassifyQuestionType(text),
                         result |-> AnalyzeQuestion(text, directedAtMe)])
  /\ UNCHANGED <<queueVars, storeVars, scored, taskVars, enqueuedAt>>

\* scoreAnswer is called (one call is followed)
ScoreAnswerCalled ==
  /\ scored = Null
  /\ \E in \in ScoreInputs :
       scored' = Some([input |-> in, confidence |-> ScoreAnswer(in, TRUE)])
  /\ UNCHANGED <<queueVars, storeVars, analyzed, taskVars, enqueuedAt>>

Init ==
  /\ InitQueue /\ InitStore /\ scored = Null /\ analyzed = Null
  /\ accepts = <<>> /\ checks = <<>>
  /\ enqueuedAt = [j \in 1..MaxJobs |-> 0]

NextQueue ==
  \/ QueueMessage
  \/ BatchTimerFires
  \/ NextTimerFires
  \/ QueueCallWakes
  \/ QueueCallAnswered
  \/ CallbackSettles
  \/ Tick

\* The queue alone: no caller of classifyOne / classifyBatch.
SpecQueue == Init /\ [][NextQueue]_vars

\* The queue, fed at most MaxSyncJobs jobs, next to a caller of classifyOne /
\* classifyBatch.
NextSync ==
  \/ QueueMessage /\ nextJob <= MaxSyncJobs
  \/ BatchTimerFires
  \/ NextTimerFires
  \/ QueueCallWakes
  \/ QueueCallAnswered
  \/ CallbackSettles
  \/ ClassifyOne
  \/ ClassifyBatch
  \/ SyncCallWakes
  \/ SyncCallAnswered
  \/ SyncGapEnds
  \/ TickSync

SpecSync == Init /\ [][NextSync]_vars

\* The queue, fed at most MaxRetryJobs jobs, over the time the longest
\* sequence of backoffs takes.
NextRetry ==
  \/ QueueMessage /\ nextJob <= MaxRetryJobs
  \/ BatchTimerFires
  \/ NextTimerFires
  \/ QueueCallWakes
  \/ QueueCallAnswered
  \/ CallbackSettles
  \/ TickRetry

SpecRetry == Init /\ [][NextRetry]_vars

\* The message handlers feeding the queue, the callbacks writing to Store.
NextPipeline ==
  \/ HandleQuestion
  \/ HandleOther
  \/ BatchTimerFires
  \/ NextTimerFires
  \/ QueueCallWakes
  \/ HandledCallAnswered
  \/ OnClassifiedSettles
  \/ TickRetry

SpecPipeline == Init /\ [][NextPipeline]_vars

\* checkForAnswers at the edges of its window and thresholds, on questions
\* that are open, dismissed or reopened.
NextEdge ==
  \/ AddQuestion
  \/ CheckForAnswersAtEdge
  \/ DismissQuestion
  \/ ReopenQuestion

SpecEdge == Init /\ [][NextEdge]_vars

\* checkForAnswers recording the reason of its auto-answers.
NextReason ==
  \/ AddQuestion
  \/ CheckForAnswersReasoned
  \/ MarkQuestionAnswered
  \/ DismissQuestion
  \/ ReopenQuestion
  \/ AcceptAnswerCandidate

SpecReason == Init /\ [][NextReason]_vars

\* Calls of checkForAnswers whose requests interleave with the decisions of
\* a human.
NextRace ==
  \/ AddQuestion
  \/ CheckIsCalled
  \/ CheckInserted
  \/ CheckUpdated
  \/ MarkQuestionAnswered
  \/ DismissQuestion
  \/ AcceptAnswerCandidate

SpecRace == Init /\ [][NextRace]_vars

\* The queue, the time each job was pushed being kept, over the time the
\* longest sequence of backoffs takes.
NextWindow ==
  \/ QueueMessageTimed
  \/ BatchTimerFires
  \/ NextTimerFires
  \/ QueueCallWakes
  \/ QueueCallAnswered
  \/ CallbackSettles
  \/ TickRetry

SpecWindow == Init /\ [][NextWindow]_vars

\* The queue, fed at most MaxLiveJobs jobs in its first LiveArrivalMs milliseconds,
\* each followed until its batch has completed.  Timers that are due fire, a request is answered or times out,
\* an awaited callback settles, and time passes while a timer is pending;
\* nothing obliges a caller to queue a message.
QueueMessageLive ==
  QueueMessage /\ nextJob <= MaxLiveJobs /\ now <= StartTime + LiveArrivalMs

\* the answers that end a call at once, with or without results, and the one
\* that is retried until the retries are used up
LiveKinds == {"ok", "nonarray", "err"}
LiveCallAnswered ==
  \E k \in 1..Len(inflight), kind \in LiveKinds : CallAnswered(k, kind)

NextLive ==
  \/ QueueMessageLive
  \/ BatchTimerFires
  \/ NextTimerFires
  \/ QueueCallWakes
  \/ LiveCallAnswered
  \/ CallbackSettles
  \/ TickLive

FairLive ==
  /\ WF_vars(BatchTimerFires)
  /\ WF_vars(NextTimerFires)
  /\ WF_vars(QueueCallWakes)
  /\ WF_vars(LiveCallAnswered)
  /\ WF_vars(CallbackSettles)
  /\ WF_vars(TickLive)

SpecLive == Init /\ [][NextLive]_vars /\ FairLive

\* Calls of scoreAnswer.
NextScore == ScoreAnswerCalled

SpecScore == Init /\ [][NextScore]_vars

\* analyzeQuestion as a function of the body
NextAnalyze == AnalyzeQuestionCalled

SpecAnalyze == Init /\ [][NextAnalyze]_vars

\* The lifecycle operations of Store, each run to completion.
NextStore ==
  \/ AddQuestion
  \/ CheckForAnswers
  \/ MarkQuestionAnswered
  \/ DismissQuestion
  \/ ReopenQuestion
  \/ AcceptAnswerCandidate
  \/ UpdateQuestionAIClassification

SpecStore == Init /\ [][NextStore]_vars

\* The store with one candidate followed through the life of its question.
NextReview ==
  \/ AddQuestion
  \/ CheckForAnswersReviewed
  \/ MarkQuestionAnswered
  \/ DismissQuestion
  \/ ReopenQuestion
  \/ AcceptAnswerCandidate
  \/ UpdateQuestionAIClassification

SpecReview == Init /\ [][NextReview]_vars

\* Calls of acceptAnswerCandidate whose requests interleave.
NextAccept ==
  \/ AddQuestion
  \/ CheckForAnswers
  \/ AcceptIsCalled
  \/ AcceptMarked
  \/ AcceptUnaccepted
  \/ AcceptUpdated

SpecAccept == Init /\ [][NextAccept]_vars

\* ===================================================== queue properties
\* A request is sent to the service in this step.
RequestSent ==
  \/ \E k \in 1..Len(inflight') :
       /\ inflight'[k].pc = "post"
       /\ k > Len(inflight) \/ inflight[k].pc # "post"
  \/ /\ sync' # Null
     /\ sync'[1].pc = "post"
     /\ sync = Null \/ sync[1].pc # "post" \/ sync[1].rest # sync'[1].rest

\* A batch is taken from the queue in this step.
BatchTaken == Len(inflight') > Len(inflight)

\* queueMessage accepts a job in this step.
Enqueued == nextJob' # nextJob

\* C1: any two consecutive starts of a request to the classification service
\* are at least rateLimitDelayMs apart, whoever sends them (a queued batch, a
\* retry, classifyOne or classifyBatch).
C1_RateLimitSpacing ==
  [][RequestSent => now - lastRequestTime >= rateLimitDelayMs]_vars

C3_Step ==
  /\ (Idle /\ Enqueued /\ 1 < batchSize) =>
       ~BatchTaken /\ batchTimer' = Some(now + batchDelayMs)
  /\ epoch # Null =>
       /\ (BatchTaken /\ ~Enqueued) => now >= epoch[1] + batchDelayMs
       /\ (Enqueued /\ Len(queue) + 1 < batchSize) =>
            ~BatchTaken /\ queue' = Append(queue, nextJob)
       /\ (Enqueued /\ Len(queue) + 1 = batchSize) =>
            /\ batchTimer' = Null
            /\ BatchTaken
            /\ queue' = <<>>
            /\ inflight'[Len(inflight')].batch = Append(queue, nextJob)

\* C3: on a queue that was idle, the first enqueue starts the batch timer for
\* batchDelayMs; while fewer than batchSize jobs are queued no batch is taken
\* before batchDelayMs has passed since that first enqueue; the enqueue that
\* makes the queue batchSize long clears the timer and takes all batchSize
\* jobs as one batch in the same step.
C3_BatchCollection == [][C3_Step]_vars

C3_Witness ==
  /\ lastTake # Null
  /\ lastTake[1].idle /\ lastTake[1].early
  /\ lastTake[1].n = batchSize

\* the dispatch state and what a step does while a batch is in flight
C4_State ==
  /\ Len(inflight) <= 1
  /\ processing <=> Len(inflight) = 1
  /\ (queue # <<>> /\ ~processing) => (batchTimer # Null \/ nextTimers # <<>>)

C4_Step ==
  /\ processing =>
       /\ ~BatchTaken
       /\ queue' = queue \/ queue' = Append(queue, nextJob)
  /\ (processing /\ ~processing' /\ queue # <<>>) =>
       Len(nextTimers') = Len(nextTimers) + 1

\* C4: at most one batch is in flight and processing is true exactly while
\* there is one; while a batch is in flight no step (timer or size threshold)
\* takes a job out of the queue or starts another call for the queue; when
\* the batch completes with jobs still queued, a further attempt is scheduled,
\* so queued jobs never wait without a pending attempt.
C4_SerializedDispatch == []C4_State /\ [][C4_Step]_vars

C4_Witness ==
  /\ processing
  /\ Len(queue) >= batchSize
  /\ batchTimer = Null

\* ===================================================== store properties
\* the candidates of question q that are accepted, in the table cands
AcceptedOf(cands, q) ==
  {c \in 1..Len(cands) : cands[c].question_id = q /\ cands[c].is_accepted}

\* C5: every question has at most one accepted answer candidate.
C5_AtMostOneAccepted ==
  \A q \in 1..Len(questions) : Cardinality(AcceptedOf(answer_candidates, q)) <= 1

\* C6: a question's answer_id, when set, names an existing candidate that is
\* accepted and belongs to that question.
C6_AnswerIdAccepted ==
  \A q \in 1..Len(questions) :
    questions[q].answer_id # Null =>
      LET c == questions[q].answer_id[1]
      IN  /\ c \in 1..Len(answer_candidates)
          /\ answer_candidates[c].is_accepted
          /\ answer_candidates[c].question_id = q

C6_Witness ==
  \E q \in 1..Len(questions) :
    /\ questions[q].answer_id # Null
    /\ questions[q].answer_reason = Some("manually accepted")
    /\ \E c \in 1..Len(answer_candidates) :
         answer_candidates[c].question_id = q /\ ~answer_candidates[c].is_accepted

\* what a step that is acceptAnswerCandidate(c) leaves behind
C7_Step ==
  \A c \in CandidateIds :
    Accept(c) =>
      IF c \in 1..Len(answer_candidates)
        THEN LET q == answer_candidates[c].question_id
             IN  /\ AcceptedOf(answer_candidates', q) = {c}
                 /\ questions'[q].status = "answered"
                 /\ questions'[q].answer_id = Some(c)
                 /\ questions'[q].answer_reason = Some("manually accepted")
        ELSE questions' = questions /\ answer_candidates' = answer_candidates

\* C7: acceptAnswerCandidate(c) leaves c the only accepted candidate of its
\* question, the question answered with answer_id = c and answer_reason =
\* "manually accepted"; with no candidate of that id it changes no record.
C7_ManualAccept == [][C7_Step]_vars

C7_Witness ==
  \E q \in 1..Len(questions), c1, c2 \in 1..Len(answer_candidates) :
    /\ c1 # c2
    /\ answer_candidates[c1].question_id = q /\ answer_candidates[c2].question_id = q
    /\ questions[q].answer_id = Some(c2)
    /\ questions[q].answer_reason = Some("manually accepted")
    /\ answer_candidates[c2].is_accepted
    /\ ~answer_candidates[c1].is_accepted
    /\ answer_candidates[c1].confidence >= acceptThreshold

\* the answer and dismissal fields of a row are all cleared
Cleared(row) ==
  /\ row.answered_by = Null /\ row.answered_at = Null
  /\ row.answer_confidence = Null /\ row.answer_reason = Null
  /\ row.answer_id = Null
  /\ row.dismissed_by = Null /\ row.dismissed_at = Null
  /\ row.dismissed = FALSE /\ row.manually_resolved = FALSE

\* what a step that is reopenQuestion(id) leaves behind
C8_Step ==
  \A id \in 1..Len(questions) :
    (Reopen(id) /\ questions[id].status \in {"answered", "dismissed"}) =>
      questions'[id].status = "open" /\ Cleared(questions'[id])

\* C8: reopenQuestion on an answered or dismissed question leaves it open
\* with answered_by, answered_at, answer_confidence, answer_reason, answer_id,
\* dismissed_by, dismissed_at null, dismissed and manually_resolved false.
C8_Reopen == [][C8_Step]_vars

\* an open question one of whose candidates is still accepted: it was
\* answered and then reopened
C8_Witness ==
  \E q \in 1..Len(questions) :
    /\ questions[q].status = "open"
    /\ Cleared(questions[q])
    /\ AcceptedOf(answer_candidates, q) # {}

\* the pairs (from, to) of statuses the lifecycle allows
AllowedTransitions ==
  {<<"open", "answered">>, <<"open", "dismissed">>,
   <<"answered", "open">>, <<"dismissed", "open">>}

\* C9: a question's status changes only open -> answered, open -> dismissed,
\* answered -> open, dismissed -> open.
C9_AllowedTransitions ==
  [][\A id \in 1..Len(questions) :
       \/ questions'[id].status = questions[id].status
       \/ <<questions[id].status, questions'[id].status>> \in AllowedTransitions]_vars

\* what a step that applies an AI result to a human-resolved question keeps
C10_Step ==
  \A id \in 1..Len(questions), aiResult \in AIInputs :
    (AIClassified(id, aiResult) /\ questions[id].status = "answered"
       /\ questions[id].manually_resolved) =>
      /\ questions'[id].status = "answered"
      /\ questions'[id].answered_by = questions[id].answered_by
      /\ questions'[id].answered_at = questions[id].answered_at
      /\ questions'[id].answer_confidence = questions[id].answer_confidence
      /\ questions'[id].answer_reason = questions[id].answer_reason
      /\ questions'[id].answer_id = questions[id].answer_id
      /\ questions'[id].manually_resolved

\* C10: applying an AI result to a question a human accepted a candidate for
\* or resolved (answered, manually_resolved) leaves it answered, its answer
\* fields unchanged.
C10_AINeverUndoesAcceptance == [][C10_Step]_vars

\* what a step that applies an AI result to a question does to its status
C11_Step ==
  \A id \in 1..Len(questions), aiResult \in AIInputs :
    AIClassified(id, aiResult) =>
      IF aiResult # Null /\ aiResult[1].intent # "question"
                        /\ aiResult[1].confidence >= dismissThreshold
        THEN /\ questions'[id].status = "dismissed"
             /\ questions'[id].dismissed_by = Some("AI (not a question)")
        ELSE /\ questions'[id].status = questions[id].status
             /\ questions'[id].dismissed_by = questions[id].dismissed_by

\* C11: an AI result applied to a question dismisses it, with dismissed_by
\* "AI (not a question)", exactly when its intent is not "question" and its
\* confidence is at least 0.8; otherwise the status is left as it was.
C11_AIOverrideThreshold == [][C11_Step]_vars

C11_Witness ==
  \E q \in 1..Len(questions) :
    /\ questions[q].status = "dismissed"
    /\ questions[q].dismissed_by = Some("AI (not a question)")
    /\ questions[q].classified_by = "ai"

\* C13: a callback of a batch runs only when the array the service returned
\* has exactly as many elements as the batch: a response of any other length
\* gives no job of the batch a result.
C13_SameLengthCheck ==
  \A k \in 1..Len(inflight) :
    inflight[k].pc = "cb" => Len(inflight[k].results) = Len(inflight[k].batch)

\* where the jobs accepted so far are, and how often their callbacks ran
C14_State ==
  /\ \A a, b \in 1..Len(queue) : a < b => queue[a] < queue[b]
  /\ \A k \in 1..Len(inflight) :
       /\ Len(inflight[k].batch) \in 1..batchSize
       /\ SeqToSet(inflight[k].batch) \cap SeqToSet(queue) = {}
       /\ \A j \in SeqToSet(queue), b \in SeqToSet(inflight[k].batch) : b < j
  /\ \A j \in 1..MaxJobs : Len(cbCalls[j]) <= 1

\* what a step does to the queue, to a batch and to the callbacks
C14_Step ==
  /\ SeqToSet(queue') \subseteq SeqToSet(queue) \cup {nextJob}
  /\ nextJob \in SeqToSet(queue') => Enqueued
  /\ BatchTaken =>
       LET q == IF Enqueued THEN Append(queue, nextJob) ELSE queue
           n == Min(batchSize, Len(q))
       IN  /\ inflight'[Len(inflight')].batch = SubSeq(q, 1, n)
           /\ queue' = SubSeq(q, n + 1, Len(q))
  /\ \A j \in 1..MaxJobs :
       cbCalls'[j] # cbCalls[j] =>
         \E k \in 1..Len(inflight') :
           LET c == inflight'[k]
           IN  /\ c.pc = "cb"
               /\ c.batch[c.i] = j
               /\ cbCalls'[j] = <<Some(c.i)>>

\* C14: accepted jobs wait in order of acceptance; a job leaves the queue
\* into exactly one batch of at most batchSize jobs, the oldest first; it is
\* never put back; its callback is invoked at most once, with the element of
\* the response at the job's own position in its batch.
C14_JobLifecycle == []C14_State /\ [][C14_Step]_vars

\* the first job of a full batch, its last job and the first job of the
\* batch after it have each been given the element at their own position
C14_Witness ==
  /\ cbCalls[1] = <<Some(1)>>
  /\ cbCalls[batchSize] = <<Some(batchSize)>>
  /\ cbCalls[batchSize + 1] = <<Some(1)>>

\* the attempts a batch is at, and how many requests a completed one took
C15_State ==
  /\ \A k \in 1..Len(inflight) : inflight[k].attempt \in 0..maxRetries
  /\ done # Null => done[1].posts \in 1..(maxRetries + 1)

\* the answer to the request of the last attempt ends the call
C15_Step ==
  \A k \in 1..Len(inflight) :
    (inflight[k].pc = "post" /\ inflight[k].attempt = maxRetries /\ inflight' # inflight) =>
      \/ /\ Len(inflight') < Len(inflight)
         /\ done'[1].posts = maxRetries + 1
         /\ done'[1].failed => cbCalls' = cbCalls
      \/ /\ Len(inflight') = Len(inflight)
         /\ inflight'[k].pc = "cb"

\* C15: a batch is sent at most maxRetries + 1 times; the answer to the last
\* of these requests, whatever it is, ends _callAPI, with one null per job
\* when it is a 429, a 529 or an error, so that no callback runs.
C15_RetryBudget == []C15_State /\ [][C15_Step]_vars

\* a batch has used up its budget on answers that were not all 429
C15_Witness ==
  /\ done # Null
  /\ done[1].failed /\ ~done[1].all429
  /\ done[1].posts = maxRetries + 1

\* what the step in which a batch completes does about the next one
C16_Step ==
  (processing /\ ~processing') =>
    /\ ~BatchTaken
    /\ queue' = queue
    /\ IF queue # <<>>
         THEN \E wait \in {200, rateLimitDelayMs - (now - lastRequestTime)} :
                /\ wait >= 200
                /\ wait >= rateLimitDelayMs - (now - lastRequestTime)
                /\ nextTimers' = Append(nextTimers, now + wait)
         ELSE nextTimers' = nextTimers

\* C16: when a batch completes and jobs are queued, the next attempt is
\* scheduled max(200 ms, rateLimitDelayMs minus the time since the last
\* request was sent) later and no batch is taken in that step; when no job is
\* queued nothing is scheduled.
C16_NextBatchScheduling == [][C16_Step]_vars

\* a batch just completed so long after its request that the 200 ms floor applies
C16_Witness ==
  /\ ~processing /\ queue # <<>>
  /\ nextTimers # <<>>
  /\ nextTimers[Len(nextTimers)] = now + 200
  /\ now - lastRequestTime > rateLimitDelayMs

\* the rows checkForAnswers added to the table for question q in this step
AddedFor(q) ==
  {c \in (Len(answer_candidates) + 1)..Len(answer_candidates') :
     answer_candidates'[c].question_id = q}

\* what checkForAnswers does for each question, by its status, its age at
\* the message and the score
C17_Step ==
  \A chat \in Chats, sender \in Senders, ts \in EdgeTimes :
    \A scores \in [PendingQs(chat) -> EdgeScores] :
      CheckEdge(chat, sender, ts, scores) =>
        /\ SubSeq(answer_candidates', 1, Len(answer_candidates)) = answer_candidates
        /\ Len(questions') = Len(questions)
        /\ \A q \in 1..Len(questions) :
             LET age == ts - questions[q].timestamp
                 inReach == /\ questions[q].chat_id = chat
                            /\ questions[q].status = "open"
                            /\ age >= 2000 /\ age <= 24 * 60 * 60 * 1000
             IN  IF inReach /\ scores[q].confidence >= 50
                   THEN \E c \in AddedFor(q) :
                          /\ AddedFor(q) = {c}
                          /\ answer_candidates'[c].is_accepted
                          /\ questions'[q].status = "answered"
                          /\ questions'[q].answer_id = Some(c)
                 ELSE IF inReach /\ scores[q].confidence >= 20
                   THEN /\ \E c \in AddedFor(q) :
                             AddedFor(q) = {c} /\ ~answer_candidates'[c].is_accepted
                        /\ questions'[q] = questions[q]
                 ELSE AddedFor(q) = {} /\ questions'[q] = questions[q]

\* C17: for a message checked against an open question of its chat that is
\* between 2 seconds and 24 hours old at the message, a score of 0.5 or more
\* records an accepted candidate and answers the question with it, a score
\* from 0.2 to below 0.5 records a candidate that is not accepted and leaves
\* the question alone; otherwise nothing is recorded or changed.
C17_AutoAnswerRule == [][C17_Step]_vars

\* a reply scored just below 0.5 was recorded, one scored 0.5 at the far
\* edge of the window answered the question
C17_Witness ==
  \E q \in 1..Len(questions), c1, c2 \in 1..Len(answer_candidates) :
    /\ answer_candidates[c1].question_id = q /\ answer_candidates[c2].question_id = q
    /\ answer_candidates[c1].confidence = 49 /\ ~answer_candidates[c1].is_accepted
    /\ answer_candidates[c2].confidence = 50 /\ answer_candidates[c2].is_accepted
    /\ answer_candidates[c2].timestamp = questions[q].timestamp + maxAge
    /\ questions[q].status = "answered"
    /\ questions[q].answer_id = Some(c2)

\* The transitions as maps on the pair t of tables (q the questions, c the
\* answer candidates), so that one can be run on the result of another.
PendingIn(t, chat) ==
  {q \in 1..Len(t.q) : t.q[q].chat_id = chat /\ t.q[q].status = "open"}

CheckedTwice(t, chat, sender, ts, scores) ==
  LET once == CheckAll(t, PendingIn(t, chat), sender, ts, scores)
  IN  <<once, CheckAll(once, PendingIn(once, chat), sender, ts, scores)>>

AcceptedOnce(t, candidateId) ==
  IF candidateId \in 1..Len(t.c)
    THEN LET F(row) == ManuallyAccepted(row, t.c[candidateId], candidateId)
         IN  [q |-> UpdateRow(t.q, t.c[candidateId].question_id, F),
              c |-> UnacceptOthers(AcceptThis(t.c, candidateId), candidateId,
                                   t.c[candidateId].question_id)]
    ELSE t

ResolvedOnce(t, id, answeredBy) ==
  LET F(row) == MarkedAnswered(row, answeredBy) IN [t EXCEPT !.q = UpdateRow(t.q, id, F)]

DismissedOnce(t, id, dismissedBy) ==
  LET F(row) == Dismissed(row, dismissedBy) IN [t EXCEPT !.q = UpdateRow(t.q, id, F)]

ReopenedOnce(t, id) == [t EXCEPT !.q = UpdateRow(t.q, id, Reopened)]

AIUpdatedOnce(t, id, aiResult) ==
  LET F(row) == AIUpdated(row, aiResult) IN [t EXCEPT !.q = UpdateRow(t.q, id, F)]

PromotedOnce(t, chat, ts, aiResult) ==
  IF Promotes(aiResult)
    THEN [t EXCEPT !.q = Append(t.q, PromotedQuestion(chat, ts, aiResult))]
    ELSE t

\* C19: each lifecycle transition (checkForAnswers, manual accept, resolve,
\* dismiss, reopen, AI override, AI promotion), run a second time with the
\* same inputs, leaves the tables as the first run left them: no question or
\* candidate is added twice.
C19_Idempotent ==
  LET t == [q |-> questions, c |-> answer_candidates]
      ids == 1..Len(questions)
  IN  /\ \A chat \in Chats, sender \in Senders, ts \in MessageTimes :
           \A scores \in [ids -> ScoreResults] :
             LET r == CheckedTwice(t, chat, sender, ts, scores) IN r[2] = r[1]
      /\ \A c \in CandidateIds : AcceptedOnce(AcceptedOnce(t, c), c) = AcceptedOnce(t, c)
      /\ \A id \in ids, by \in Actors :
           /\ ResolvedOnce(ResolvedOnce(t, id, by), id, by) = ResolvedOnce(t, id, by)
           /\ DismissedOnce(DismissedOnce(t, id, by), id, by) = DismissedOnce(t, id, by)
      /\ \A id \in ids : ReopenedOnce(ReopenedOnce(t, id), id) = ReopenedOnce(t, id)
      /\ \A id \in ids, r \in AIResults :
           AIUpdatedOnce(AIUpdatedOnce(t, id, r), id, r) = AIUpdatedOnce(t, id, r)
      /\ \A chat \in Chats, ts \in MessageTimes, r \in AIResults :
           PromotedOnce(PromotedOnce(t, chat, ts, r), chat, ts, r) = PromotedOnce(t, chat, ts, r)

\* ================================================== pipeline properties
\* A step of the classifier, not of a message handler.
ClassifierStep == nextJob' = nextJob

\* What the end of a batch on a failure path, and any step of the classifier,
\* may do to the tables.
C12_Step ==
  /\ (Len(inflight') < Len(inflight) /\ done'[1].failed) =>
       /\ questions' = questions
       /\ answer_candidates' = answer_candidates
       /\ \A k \in 1..Len(inflight) : \A j \in SeqToSet(inflight[k].batch) :
            cbCalls'[j] = <<>>
  /\ (ClassifierStep /\ storeVars' # storeVars) =>
       \E k \in 1..Len(inflight) :
         LET c == inflight[k]
         IN  /\ c.pc = "cb"
             /\ ResultAt(c.results, c.i) # Null
             /\ answer_candidates' = answer_candidates
             /\ IF jobs[c.batch[c.i]].kind = "verify"
                  THEN /\ Len(questions') = Len(questions)
                       /\ \A q \in 1..Len(questions) :
                            q # jobs[c.batch[c.i]].question => questions'[q] = questions[q]
                  ELSE /\ Len(questions') = Len(questions) + 1
                       /\ SubSeq(questions', 1, Len(questions)) = questions

\* C12: when a batch ends without an AI result (retries exhausted, a
\* non-success answer, a body that is malformed or not an array, a network
\* error or timeout), no callback of its jobs has run and the tables are as
\* they were: the classifier changes a record only through the callback of a
\* job the service returned a result for.
C12_GracefulDegradation == [][C12_Step]_vars

\* the batch of the handled messages has ended with its retries used up, and
\* the question recorded for one of them stands as the handler wrote it
C12_Witness ==
  /\ done # Null /\ done[1].failed /\ done[1].posts = maxRetries + 1
  /\ queue = <<>> /\ inflight = <<>>
  /\ \A j \in 1..Len(jobs) : cbCalls[j] = <<>>
  /\ \E j \in 1..Len(jobs) :
       /\ jobs[j].kind = "verify"
       /\ questions[jobs[j].question] = NewQuestion(jobs[j].chat, StartTime)

\* what the callback of a message's job does when it is given a result, and
\* where a question added by the classifier comes from
C18_Step ==
  /\ \A k \in 1..Len(inflight), aiResult \in CallbackInputs :
       (CallbackGiven(k, aiResult) /\ Awaited(inflight[k]).kind = "check") =>
         IF aiResult # Null /\ aiResult[1].intent = "question" /\ aiResult[1].confidence >= 70
           THEN /\ Len(questions') = Len(questions) + 1
                /\ SubSeq(questions', 1, Len(questions)) = questions
                /\ LET row == questions'[Len(questions')]
                   IN  /\ row.status = "open"
                       /\ row.classified_by = "ai"
                       /\ row.chat_id = Awaited(inflight[k]).chat
                       /\ row.timestamp = Awaited(inflight[k]).timestamp
           ELSE questions' = questions
  /\ (ClassifierStep /\ Len(questions') # Len(questions)) =>
       \E k \in 1..Len(inflight) :
         /\ inflight[k].pc = "cb"
         /\ Awaited(inflight[k]).kind = "check"
         /\ ResultAt(inflight[k].results, inflight[k].i) # Null
         /\ Len(questions') = Len(questions) + 1

\* C18: the AI result for a group message the analyzer did not take for a
\* question creates exactly one question from it, open and classified_by
\* "ai", when its intent is "question" and its confidence is at least 0.7;
\* any other result, and no result, creates none.
C18_AIPromotion == [][C18_Step]_vars

\* a question no handler recorded: it was promoted from a message
C18_Witness ==
  \E q \in 1..Len(questions) :
    /\ \A j \in 1..Len(jobs) : jobs[j].question # q
    /\ questions[q].status = "open"
    /\ questions[q].classified_by = "ai"
    /\ \E j \in 1..Len(jobs) :
         jobs[j].kind = "check" /\ cbCalls[j] # <<>> /\ questions[q].timestamp = jobs[j].timestamp

\* ===================================================== score properties
\* C20: for a reply by the asker, the confidence scoreAnswer returns is at
\* most 0.3 times the confidence the same inputs get without the self-reply
\* penalty.
C20_SelfReplyBound ==
  (scored # Null /\ scored[1].input.self) =>
    10 * scored[1].confidence <= 3 * ScoreAnswer(scored[1].input, FALSE)

\* C21: the confidence scoreAnswer returns lies between 0 and 1 (0 and 100
\* hundredths) whatever the signals are, and is 0 for an empty body.
C21_ConfidenceRange ==
  scored # Null =>
    /\ scored[1].confidence \in 0..100
    /\ scored[1].input.length = 0 => scored[1].confidence = 0

\* a call whose signals add up to more than 1 and whose confidence is 1
C21_Witness ==
  /\ scored # Null
  /\ scored[1].input.length > 0
  /\ (IF scored[1].input.self THEN Penalised(TotalBeforeSelf(scored[1].input))
                              ELSE TotalBeforeSelf(scored[1].input))
       + AddedAfterSelf(scored[1].input) > ScoreUnit
  /\ scored[1].confidence = 100

\* C22: analyzeQuestion of "Can you send me the invoice ASAP?" gives
\* questionType action_request and priority urgent.
C22_CanYouSend ==
  (analyzed # Null /\ analyzed[1].text = CanYouSend) =>
    /\ analyzed[1].result # Null
    /\ analyzed[1].result[1].questionType = "action_request"
    /\ analyzed[1].result[1].priority = "urgent"

\* the rule groups in the order the claim fixes, and the type each one gives
GroupTypes ==
  <<"yes_no", "approval", "scheduling", "status_check", "action_request", "opinion",
    "info_seeking", "general", "general">>

QuestionTypes ==
  {"yes_no", "info_seeking", "action_request", "opinion", "status_check", "scheduling",
   "approval", "general"}

GroupMatches(g, t) ==
  CASE g = 1 -> YesNo(t)
    [] g = 2 -> Approval(t)
    [] g = 3 -> Scheduling(t)
    [] g = 4 -> StatusCheck(t)
    [] g = 5 -> ActionRequest(t)
    [] g = 6 -> Opinion(t)
    [] g = 7 -> InfoSeeking(t)
    [] g = 8 -> TrailingMark(t)
    [] g = 9 -> Implicit(t)

MatchingGroups(text) == {g \in 1..Len(GroupTypes) : GroupMatches(g, LowerText(text))}

\* C23: the questionType of a body is the type of the first rule group, in
\* the order yes_no, approval, scheduling, status_check, action_request,
\* opinion, info_seeking, trailing "?", implicit question, that matches it;
\* a body no group matches has none and is no question, and the type is
\* always one of the eight of the closed set.
C23_FirstMatch ==
  analyzed # Null =>
    LET groups == MatchingGroups(analyzed[1].text)
        type == analyzed[1].questionType
    IN  /\ groups = {} => type = Null /\ analyzed[1].result = Null
        /\ groups # {} =>
             /\ type # Null
             /\ type[1] \in QuestionTypes
             /\ \E g \in groups : type[1] = GroupTypes[g] /\ \A h \in groups : g <= h
        /\ analyzed[1].result # Null => analyzed[1].result[1].questionType = type[1]

\* "When is the meeting?" matches the groups scheduling, info_seeking and
\* trailing "?", and is typed scheduling
C23_Witness ==
  /\ analyzed # Null
  /\ analyzed[1].text = WhenMeeting
  /\ MatchingGroups(WhenMeeting) = {3, 7, 8}
  /\ analyzed[1].result # Null
  /\ analyzed[1].result[1].questionType = "scheduling"

\* C24: analyzeQuestion gives "not a question" exactly when the body is
\* shorter than 3 characters, or is in the exclusion set, or matches no rule
\* group (so a body of 3 or 4 characters outside the exclusion set that a
\* rule group matches is a question).
C24_NonQuestionRejection ==
  analyzed # Null =>
    (analyzed[1].result = Null <=>
       \/ TextLength(analyzed[1].text) < minBodyLength
       \/ Excluded(LowerText(analyzed[1].text))
       \/ analyzed[1].questionType = Null)

\* C25: once two calls of acceptAnswerCandidate for two candidates of one
\* question have both completed, however their requests interleaved, exactly
\* one of the two candidates is accepted and the question's answer_id is
\* that candidate.
C25_ConcurrentAccepts ==
  \A a \in 1..Len(accepts), b \in 1..Len(accepts) :
    ( /\ accepts[a].pc = "done" /\ accepts[b].pc = "done"
      /\ accepts[a].candidate # Null /\ accepts[b].candidate # Null
      /\ accepts[a].candidateId # accepts[b].candidateId
      /\ accepts[a].candidate[1].question_id = accepts[b].candidate[1].question_id )
    => LET c1 == accepts[a].candidateId
           c2 == accepts[b].candidateId
           q == accepts[a].candidate[1].question_id
       IN  \E c \in {c1, c2} :
             /\ answer_candidates[c].is_accepted
             /\ \A d \in {c1, c2} \ {c} : ~answer_candidates[d].is_accepted
             /\ questions[q].answer_id = Some(c)

\* the answers the specification calls permanent failures
PermanentKinds == {"r500", "badjson", "nonarray"}

C26_Step ==
  \A k \in 1..Len(inflight), kind \in PermanentKinds :
    CallAnswered(k, kind) =>
      ~(Len(inflight') = Len(inflight) /\ inflight'[k].pc = "backoff")

\* C26: a request answered with a non-success status other than 429 and 529,
\* or with a body that is malformed or not an array, is not sent again: the
\* call returns at once with no result, no backoff follows.
C26_PermanentNotRetried == [][C26_Step]_vars

\* what a signal's score is multiplied by when it is added to the total, in
\* per cent (analyzer.js 357, 366, 429; the other signals are added as they are)
SignalWeight(name) ==
  CASE name = "answer_pattern" -> 40
    [] name = "keyword_overlap" -> 25
    [] name = "type_match" -> 20
    [] OTHER -> 100

Contribution(signal) == signal.score * SignalWeight(signal.name)

\* the signal that added the largest positive amount to the total
RECURSIVE TopContributor(_, _, _)
TopContributor(signals, i, best) ==
  IF i > Len(signals) THEN best
  ELSE IF Contribution(signals[i]) > 0
          /\ (best = Null \/ Contribution(signals[i]) > Contribution(best[1]))
    THEN TopContributor(signals, i + 1, Some(signals[i]))
    ELSE TopContributor(signals, i + 1, best)

ContributionReason(signals) ==
  LET top == TopContributor(signals, 1, Null)
  IN  IF top # Null THEN top[1].detail ELSE "multi-signal match"

C27_Step ==
  \A chat \in Chats, sender \in Senders, ts \in MessageTimes :
    \A scores \in [PendingQs(chat) -> ReasonScores] :
      CheckReason(chat, sender, ts, scores) =>
        \A q \in PendingQs(chat) :
          questions'[q].status = "answered" =>
            questions'[q].answer_reason = Some(ContributionReason(scores[q].signals))

\* C27: the answer_reason checkForAnswers stores with an auto-answer is the
\* detail of the signal that added the largest positive amount to the
\* confidence total (its score times its weight), and "multi-signal match"
\* only when no signal added a positive amount.
C27_TopContribution == [][C27_Step]_vars

C29_Step ==
  \A k \in 1..Len(checks) :
    CheckUpdates(k) =>
      LET q == Head(checks[k].todo)
      IN  questions[q].status # "open" => questions'[q] = questions[q]

C29_State ==
  (\A k \in 1..Len(checks) : checks[k].pc = "done") =>
    \A q \in 1..Len(questions) :
      Cardinality({c \in 1..Len(answer_candidates) :
                     /\ answer_candidates[c].question_id = q
                     /\ answer_candidates[c].is_accepted}) <= 1

\* C29: checkForAnswers writes its auto-answer only to a question that is
\* still open when the update is made: a question a human has dismissed,
\* resolved or answered by accepting a candidate since the open questions
\* were read keeps its row, and once the calls have returned at most one
\* candidate of a question is accepted.
C29_KeepsHumanDecision == []C29_State /\ [][C29_Step]_vars

C30_Step ==
  Len(inflight') > Len(inflight) =>
    LET batch == inflight'[Len(inflight')].batch
    IN  Len(batch) < batchSize => now >= enqueuedAt[batch[1]] + batchDelayMs

\* C30: in every state of the queue, also after earlier batches completed or
\* while one is outstanding, a batch of fewer than batchSize jobs is taken
\* only when batchDelayMs have passed since its oldest job was pushed; the
\* next-batch timer set after a completed batch does not take a partly
\* filled batch sooner.
C30_WindowOrSize == [][C30_Step]_vars

\* something is pending that will call _processBatch again
Pending == processing \/ batchTimer # Null \/ nextTimers # <<>>

C28_State == queue # <<>> => Pending

\* C28: when timers fire, every request is answered or times out and every
\* callback settles, each job queueMessage accepted is in the end taken from
\* the queue in a batch and the processing flag becomes false again; in no
\* state is the queue non-empty with no batch outstanding and neither the
\* batch timer nor a next-batch timer pending.  (Jobs leave the queue from
\* its head and never come back, so every job of a non-empty queue has been
\* taken once the queue is empty.)
C28_QueueLiveness ==
  /\ []C28_State
  /\ (queue # <<>>) ~> (queue = <<>>)
  /\ processing ~> ~processing

\* a batch has completed while batchSize jobs pushed during it wait in the
\* queue, the size threshold having cancelled their batch timer: only the
\* next-batch timer is left to take them
C28_Witness ==
  /\ Len(queue) >= batchSize /\ ~processing /\ batchTimer = Null /\ nextTimers # <<>>
  /\ done # Null

====
